---------------------------- MODULE Spec2Model ----------------------------
(***************************************************************************)
(* A model of the retrieval-augmented generation pipeline of the UGA HFIM  *)
(* chatbot: the text chunker (src/rag/chunk.js) and the retriever          *)
(* (src/rag/retrieve.js, kept in verifyChunking.js).                       *)
(*                                                                         *)
(* Text is a sequence of one-character strings.  Positions named after the *)
(* source (start, end, bestBreak, ...) are 0-based as in JavaScript; the   *)
(* conversion to TLA+'s 1-based sequences is made where a character is     *)
(* read.                                                                   *)
(***************************************************************************)
EXTENDS Integers, Sequences, FiniteSets, TLC

VARIABLES
    \* ---- chunkText(text, maxChars, overlap) ----
    text,          \* the argument: raw document text (Null for null/undefined)
    maxChars,      \* the argument maxChars
    overlap,       \* the argument overlap
    pc,            \* position in chunkText: "call", "loop", "post", "done"
    clean,         \* const clean
    sourceHeader,  \* const sourceHeader
    start,         \* let start
    chunks,        \* const chunks = []
    result,        \* the returned array
    windows,       \* history: one record per iteration of the while loop
    \* ---- retrieveRelevantChunks(userQuestion, topK) ----
    userQuestion,  \* the argument userQuestion
    topK,          \* the argument topK
    minSimilarity, \* process.env.MIN_SIMILARITY, in thousandths
    records,       \* the ids of the records in the namespace
    rpc,           \* position in retrieveRelevantChunks
    isAggregationQuery, \* const isAggregationQuery
    queryNo,       \* index (1-based) in searchQueries of the current query
    allMatches,    \* const allMatches
    seenIds,       \* const seenIds
    asked,         \* history: one record per query sent to the index, with
                   \* the answer it got
    returned,      \* the values the call resolved to: none, or one
    thrown,        \* the call that rejected and made this one reject, or ""
    \* ---- ingest() ----
    ingestEnv,     \* the names of the environment variables that are set
    version,       \* which processFile runs: "part_003" or "ingest.js"
    flags,         \* the command line flags given
    docsDir,       \* the names of the files in docs/
    unreadable,    \* the files of docs/ that cannot be read or parsed
    indexState,    \* the index service: "absent", "initializing", "ready"
    store,         \* the records of the namespace
    run,           \* the number of the ingestion run (1 is the first)
    ipc,           \* position in ingest()
    files,         \* const files = fs.readdirSync(docsDir)
    fileNo,        \* index (1-based) in files of the file being processed
    batchStart,    \* the loop variable i of processFile
    vectors,       \* the records of the batch in flight
    idCounter,     \* idCounterRef.value
    log,           \* history: the service calls made, in order
    \* ---- server.js ----
    serverVersion, \* which server runs: "server.js" or "part_007"
    serverEnv,     \* the names of the environment variables that are set
    debugRag,      \* const DEBUG_RAG
    promptReadable, \* src/prompts/systemPrompt.txt can be read
    spc,           \* position in the server process and its handlers
    request,       \* the request being handled
    response,      \* the responses sent for it: none, or one
    serverCalls,   \* history: the service calls the handlers made for it
    served,        \* the number of requests received
    \* ---- crawlBFS.js ----
    START_URL,     \* process.argv[2], or its default
    MAX_PAGES,     \* process.argv[5] parsed
    MAX_DEPTH,     \* process.argv[6] parsed
    cpc,           \* position in crawl()
    queue,         \* const queue
    visited,       \* const visited
    count,         \* let count
    fetched,       \* history: one record per call of fetchAndParse
    enqueued       \* history: the entries pushed on the queue by the loop

chunkVars == <<text, maxChars, overlap, pc, clean, sourceHeader, start,
               chunks, result, windows>>

retrieveVars == <<userQuestion, topK, minSimilarity, records, rpc,
                  isAggregationQuery, queryNo, allMatches, seenIds, asked,
                  returned, thrown>>

ingestVars == <<ingestEnv, version, flags, docsDir, unreadable, indexState, store, run,
                ipc, files, fileNo, batchStart, vectors, idCounter, log>>

serverVars == <<serverVersion, serverEnv, debugRag, promptReadable, spc,
                request, response, serverCalls, served>>

crawlVars == <<START_URL, MAX_PAGES, MAX_DEPTH, cpc, queue, visited, count,
               fetched, enqueued>>

vars == <<chunkVars, retrieveVars, ingestVars, serverVars, crawlVars>>

-----------------------------------------------------------------------------
(* Characters and strings *)

Chars(s) == [i \in 1..Len(s) |-> SubSeq(s, i, i)]

Lower == Chars("abcdefghijklmnopqrstuvwxyz")
Upper == Chars("ABCDEFGHIJKLMNOPQRSTUVWXYZ")

LowerSet == {Lower[i] : i \in 1..26}
UpperSet == {Upper[i] : i \in 1..26}

IsLetter(c) == c \in LowerSet \/ c \in UpperSet

\* \s of a JavaScript regular expression, over the characters the model uses
IsWs(c) == c \in {" ", "\n", "\r", "\t"}

\* String.prototype.toLowerCase on one character
LowerChar(c) ==
    IF c \in UpperSet
    THEN Lower[CHOOSE i \in 1..26 : Upper[i] = c]
    ELSE c

ToLowerCase(t) == [i \in 1..Len(t) |-> LowerChar(t[i])]

\* The value of a null or undefined argument
Null == <<"null">>

\* The indices (1-based) of t, in order
Indices(t) == [i \in 1..Len(t) |-> i]

\* The characters of t at the indices idx: what a replace keeps
CharsAt(t, idx) == [k \in 1..Len(idx) |-> t[idx[k]]]

\* String.prototype.slice(a, b) for 0 <= a, 0 <= b
Slice(t, a, b) ==
    LET e == IF b > Len(t) THEN Len(t) ELSE b
    IN  IF a >= e THEN <<>> ELSE SubSeq(t, a + 1, e)

RECURSIVE FirstNonWs(_, _)
FirstNonWs(t, i) ==
    IF i > Len(t) \/ ~IsWs(t[i]) THEN i ELSE FirstNonWs(t, i + 1)

RECURSIVE LastNonWs(_, _)
LastNonWs(t, i) ==
    IF i < 1 \/ ~IsWs(t[i]) THEN i ELSE LastNonWs(t, i - 1)

\* String.prototype.trim
Trim(t) ==
    LET f == FirstNonWs(t, 1)
        l == LastNonWs(t, Len(t))
    IN  IF f > l THEN <<>> ELSE SubSeq(t, f, l)

\* Number of whitespace characters trim removes at the head of t
LeadWs(t) == IF Trim(t) = <<>> THEN Len(t) ELSE FirstNonWs(t, 1) - 1

\* String.prototype.startsWith(p), and the same test at 0-based position k
MatchAt(t, k, p) ==
    /\ k >= 0
    /\ k + Len(p) <= Len(t)
    /\ \A i \in 1..Len(p) : t[k + i] = p[i]

StartsWith(t, p) == MatchAt(t, 0, p)

\* String.prototype.includes(p)
Includes(t, p) == \E k \in 0..(Len(t) - Len(p)) : MatchAt(t, k, p)

Max(a, b) == IF a >= b THEN a ELSE b
Min(a, b) == IF a <= b THEN a ELSE b

\* The largest and the smallest element of a non-empty finite set of integers
MaxOf(S) == CHOOSE x \in S : \A y \in S : y <= x
MinOf(S) == CHOOSE x \in S : \A y \in S : x <= y

\* String.prototype.lastIndexOf(p)
LastIndexOf(t, p) ==
    LET at == {k \in 0..(Len(t) - Len(p)) : MatchAt(t, k, p)}
    IN  IF at = {} THEN -1 ELSE MaxOf(at)

-----------------------------------------------------------------------------
(* chunk.js lines 4-9: cleaning and normalisation *)

\* .replace(/\r\n/g, '\n')
NormalizeLineEndings(t) ==
    CharsAt(t, SelectSeq(Indices(t), LAMBDA i :
        ~(t[i] = "\r" /\ i < Len(t) /\ t[i + 1] = "\n")))

\* .replace(/\n{3,}/g, '\n\n'): a run of three or more newlines keeps two
CollapseNewlines(t) ==
    CharsAt(t, SelectSeq(Indices(t), LAMBDA i :
        ~(i >= 3 /\ t[i] = "\n" /\ t[i - 1] = "\n" /\ t[i - 2] = "\n")))

\* .replace(/\s+/g, ' '): every run of whitespace, newlines included,
\* becomes one space
CollapseWhitespace(t) ==
    LET kept == CharsAt(t, SelectSeq(Indices(t), LAMBDA i :
                    ~IsWs(t[i]) \/ i = 1 \/ ~IsWs(t[i - 1])))
    IN  [k \in 1..Len(kept) |-> IF IsWs(kept[k]) THEN " " ELSE kept[k]]

RECURSIVE WsRunStart(_, _)
WsRunStart(t, i) ==
    IF i > 1 /\ IsWs(t[i - 1]) THEN WsRunStart(t, i - 1) ELSE i

RECURSIVE WsRunEnd(_, _)
WsRunEnd(t, i) ==
    IF i < Len(t) /\ IsWs(t[i + 1]) THEN WsRunEnd(t, i + 1) ELSE i

\* .replace(/\n\s*\n/g, '\n\n'): in a run of whitespace that holds two or
\* more newlines, what lies from the first newline to the last becomes "\n\n"
CleanParagraphBreaks(t) ==
    IF \A i \in 1..Len(t) : t[i] # "\n" THEN t
    ELSE
      LET NlBefore(i) == \E f \in WsRunStart(t, i)..(i - 1) : t[f] = "\n"
          NlAfter(i)  == \E l \in (i + 1)..WsRunEnd(t, i) : t[l] = "\n"
          \* strictly between the first and the last newline of the run
          Inside(i)   == IsWs(t[i]) /\ NlBefore(i) /\ NlAfter(i)
      IN  CharsAt(t, SelectSeq(Indices(t), LAMBDA i : ~Inside(i)))

\* const clean = (text || '').replace(...).replace(...).replace(...)
\*                           .replace(...).trim()
Normalize(t) ==
    LET raw == IF t = Null THEN <<>> ELSE t
    IN  Trim(CleanParagraphBreaks(CollapseWhitespace(
             CollapseNewlines(NormalizeLineEndings(raw)))))

-----------------------------------------------------------------------------
(* chunk.js lines 24-31: the minimum chunk size and the source header *)

MIN_CHUNK_SIZE == 400

\* The documents below this length are skipped (line 12)
MIN_DOC_LENGTH == 100

\* The loop stops when fewer than this many characters remain (line 148)
TAIL_SLACK == 50

\* The required run of letters of the final validation (line 177)
REAL_CONTENT_RUN == 10

RECURSIVE SkipWs(_, _)
\* \s* from 0-based position k: the position after the whitespace
SkipWs(t, k) == IF k < Len(t) /\ IsWs(t[k + 1]) THEN SkipWs(t, k + 1) ELSE k

RECURSIVE SkipNonWs(_, _)
\* [^\s\n]+ from 0-based position k: the position after the run
SkipNonWs(t, k) ==
    IF k < Len(t) /\ ~IsWs(t[k + 1]) THEN SkipNonWs(t, k + 1) ELSE k

RECURSIVE SkipNewlines(_, _)
\* \n* from 0-based position k
SkipNewlines(t, k) ==
    IF k < Len(t) /\ t[k + 1] = "\n" THEN SkipNewlines(t, k + 1) ELSE k

\* <word>\s*(https?:\/\/[^\s\n]+) matched at 0-based position k: the position
\* after the match, or -1.  word is "Source:" (or "source:" on lower-cased
\* text, for the /i flag).
SourceLineEnd(t, k, word) ==
    IF ~MatchAt(t, k, word) THEN -1
    ELSE
      LET u == SkipWs(t, k + Len(word))
          v == IF MatchAt(t, u, Chars("https://")) THEN u + 8
               ELSE IF MatchAt(t, u, Chars("http://")) THEN u + 7
               ELSE -1
      IN  IF v = -1 THEN -1
          ELSE LET e == SkipNonWs(t, v) IN IF e > v THEN e ELSE -1

\* (#[^\n]+\n+)? at the head of t: the position after the group, or 0 when
\* the group matches nothing
TitleGroupEnd(t) ==
    LET nl == {i \in 3..Len(t) : t[i] = "\n"}
    IN  IF Len(t) >= 3 /\ t[1] = "#" /\ t[2] # "\n" /\ nl # {}
        THEN SkipNewlines(t, MinOf(nl) - 1)
        ELSE 0

\* clean.match(/^(#[^\n]+\n+)?Source:\s*(https?:\/\/[^\s\n]+)/), then
\* sourceMatch ? sourceMatch[0] : ''
SourceHeaderOf(t) ==
    LET g  == TitleGroupEnd(t)
        e1 == SourceLineEnd(t, g, Chars("Source:"))
        e0 == SourceLineEnd(t, 0, Chars("Source:"))
    IN  IF e1 # -1 THEN Slice(t, 0, e1)
        ELSE IF e0 # -1 THEN Slice(t, 0, e0)
        ELSE <<>>

-----------------------------------------------------------------------------
(* chunk.js lines 40-116: the break point of a window *)

\* Lines 46-51: every position of "\n\n" in the window
ParagraphBreaks(chunk) ==
    {p \in 0..(Len(chunk) - 2) : chunk[p + 1] = "\n" /\ chunk[p + 2] = "\n"}

\* Lines 54-61: the last paragraph break beyond 50% of maxChars, or -1
ParagraphBreak(chunk, mc) ==
    LET ok == {p \in ParagraphBreaks(chunk) : 2 * p > mc}
    IN  IF ok = {} THEN -1 ELSE MaxOf(ok)

\* Lines 66-71: /[.!?](?:\s+[A-Z]|\s*$)/g, the position after each
\* punctuation mark that ends a sentence
SentenceEnds(chunk) ==
    {p + 1 : p \in {q \in 0..(Len(chunk) - 1) :
        /\ chunk[q + 1] \in {".", "!", "?"}
        /\ LET n == SkipWs(chunk, q + 1)
           IN  \/ n > q + 1 /\ n < Len(chunk) /\ chunk[n + 1] \in UpperSet
               \/ n = Len(chunk)}}

\* Lines 74-81: the last sentence end beyond 60% of maxChars, or -1
SentenceBreak(chunk, mc) ==
    LET ok == {p \in SentenceEnds(chunk) : 10 * p > 6 * mc}
    IN  IF ok = {} THEN -1 ELSE MaxOf(ok)

\* Lines 86-91: the last newline, when beyond 70% of maxChars, or -1
LineBreak(chunk, mc) ==
    LET nl == {p \in 0..(Len(chunk) - 1) : chunk[p + 1] = "\n"}
        lastNewline == IF nl = {} THEN -1 ELSE MaxOf(nl)
    IN  IF 10 * lastNewline > 7 * mc THEN lastNewline ELSE -1

\* chunk.split(/\s+/): the words, with an empty word at a side where the
\* string starts or ends with whitespace
Split(chunk) ==
    LET n      == Len(chunk)
        idx    == Indices(chunk)
        starts == SelectSeq(idx, LAMBDA i :
                      ~IsWs(chunk[i]) /\ (i = 1 \/ IsWs(chunk[i - 1])))
        ends   == SelectSeq(idx, LAMBDA i :
                      ~IsWs(chunk[i]) /\ (i = n \/ IsWs(chunk[i + 1])))
        inner  == [k \in 1..Len(starts) |-> SubSeq(chunk, starts[k], ends[k])]
    IN  IF n = 0 THEN << <<>> >>
        ELSE (IF IsWs(chunk[1]) THEN << <<>> >> ELSE <<>>)
             \o inner
             \o (IF IsWs(chunk[n]) THEN << <<>> >> ELSE <<>>)

RECURSIVE LengthSums(_, _, _)
\* Line 103: the values currentLength takes, one per word of words[lo..hi]
\* (each word adds its length + 1), computed by halves
LengthSums(words, lo, hi) ==
    IF lo = hi THEN <<Len(words[lo]) + 1>>
    ELSE LET mid == (lo + hi) \div 2
             l   == LengthSums(words, lo, mid)
             r   == LengthSums(words, mid + 1, hi)
         IN  l \o [i \in 1..Len(r) |-> r[i] + l[Len(l)]]

\* Lines 102-109: the loop over the words stops at the first word where
\* currentLength reaches the target; -1 when no word does
WordLoop(chunk, words, targetLength) ==
    LET sums == LengthSums(words, 1, Len(words))
        hit  == {i \in 1..Len(words) : sums[i] >= targetLength}
    IN  IF hit = {} THEN -1
        ELSE LastIndexOf(chunk, words[MinOf(hit)]) + Len(words[MinOf(hit)])

\* Math.floor(maxChars * 0.8)
TargetLength(mc) == (8 * mc) \div 10

\* Lines 95-111: the word boundary at about 80% of maxChars, or -1
WordBreak(chunk, mc) ==
    LET words == Split(chunk)
    IN  IF Len(words) > 10
        THEN WordLoop(chunk, words, TargetLength(mc))
        ELSE -1

\* Lines 42-111: bestBreak and breakType after the cascade
BestBreak(chunk, mc) ==
    LET para == ParagraphBreak(chunk, mc)
        sent == SentenceBreak(chunk, mc)
        line == LineBreak(chunk, mc)
        word == WordBreak(chunk, mc)
    IN  IF para # -1 THEN [at |-> para, type |-> "paragraph"]
        ELSE IF sent # -1 THEN [at |-> sent, type |-> "sentence"]
        ELSE IF line # -1 THEN [at |-> line, type |-> "line"]
        ELSE IF word # -1 THEN [at |-> word, type |-> "word"]
        ELSE [at |-> -1, type |-> ""]

\* A window one character too wide
WindowEndOffByOne(s, mc, len) == Min(s + mc + 1, len)

\* Line 35: let end = Math.min(start + maxChars, clean.length)
WindowEnd(s, mc, len) == Min(s + mc, len)

\* Lines 38-120: the chunk of the window at s, before the size check:
\* the text of the window cut at the break point and trimmed, with the break
\* chosen and the whitespace removed at its head
WindowChunk(t, s, mc) ==
    LET end   == WindowEnd(s, mc, Len(t))
        chunk == Slice(t, s, end)
        look  == end < Len(t) /\ Len(chunk) > MIN_CHUNK_SIZE
        best  == IF look THEN BestBreak(chunk, mc) ELSE [at |-> -1, type |-> ""]
        apply == look /\ best.at > MIN_CHUNK_SIZE
        piece == IF apply THEN Slice(chunk, 0, best.at) ELSE chunk
        cut   == IF apply THEN Trim(piece) ELSE chunk
    IN  [chunk |-> Trim(cut),
         end   |-> end,
         best  |-> best,
         apply |-> apply,
         lead  |-> LeadWs(piece)]

-----------------------------------------------------------------------------
(* chunk.js lines 122-145: accepting a chunk and moving the window *)

\* Line 125: chunks.length > 0 && sourceHeader && !chunk.startsWith('Source:')
PrependsHeader(n, header, chunk) ==
    n > 0 /\ header # <<>> /\ ~StartsWith(chunk, Chars("Source:"))

\* Line 126: sourceHeader + '\n\n' + chunk
WithHeader(header, chunk) == header \o <<"\n", "\n">> \o chunk

\* The advance without its floor
MinAdvanceNoFloor(actualLength, ov) == actualLength - ov

\* The advance without the overlap
MinAdvanceNoOverlap(actualLength, ov) == Max(actualLength, MIN_CHUNK_SIZE)

\* Line 134: Math.max(actualLength - overlap, MIN_CHUNK_SIZE)
MinAdvance(actualLength, ov) == Max(actualLength - ov, MIN_CHUNK_SIZE)

-----------------------------------------------------------------------------
(* chunk.js lines 153-187: post-processing and the final validation *)

\* Lines 154-160: a last chunk below the minimum is removed
DropSmallLast(cs) ==
    IF Len(cs) > 1 /\ Len(cs[Len(cs)]) < MIN_CHUNK_SIZE
    THEN SubSeq(cs, 1, Len(cs) - 1)
    ELSE cs

\* Lines 173-176: c.replace(/^.*?Source:\s*https?:\/\/[^\s\n]+\n*/i, '')
\* The lazy .*? stops at the first place of the first line where the rest
\* matches; "." matches no line terminator.
StripSource(c) ==
    LET low   == ToLowerCase(c)
        brk   == {i \in 0..(Len(c) - 1) : c[i + 1] \in {"\n", "\r"}}
        limit == IF brk = {} THEN Len(c) ELSE MinOf(brk)
        at    == {k \in 0..limit : SourceLineEnd(low, k, Chars("source:")) # -1}
    IN  IF at = {} THEN c
        ELSE LET k == MinOf(at)
                 e == SkipNewlines(c, SourceLineEnd(low, k, Chars("source:")))
             IN  Slice(c, e, Len(c))

\* Line 177: /[a-zA-Z]{10,}/.test(contentWithoutSource)
HasRealContent(t) ==
    \E i \in 1..(Len(t) - REAL_CONTENT_RUN + 1) :
        \A j \in 0..(REAL_CONTENT_RUN - 1) : IsLetter(t[i + j])

\* Lines 163-187: the predicate of chunks.filter
IsValidChunk(c) ==
    /\ Len(c) >= MIN_CHUNK_SIZE
    /\ HasRealContent(StripSource(c))

ValidChunks(cs) == SelectSeq(cs, IsValidChunk)

-----------------------------------------------------------------------------
(* The documents and arguments chunkText is called with *)

\* The largest number of paragraphs of a generated document
MaxBlocks == 3

Rep(n, c) == [i \in 1..n |-> c]

\* Letters per word of each kind of prose
WordWidth(kind) == IF kind = "short" THEN 4 ELSE 11

\* Words per sentence of the "sent" kind
SentenceWords == 5

\* Character o (0-based) of word j: the first two letters spell j
WordChar(j, o) ==
    IF o = 0 THEN Lower[(j % 26) + 1]
    ELSE IF o = 1 THEN Lower[((j \div 26) % 26) + 1]
    ELSE "x"

\* A paragraph of k words separated by single spaces.  "same" repeats one
\* word, "words" and "short" use a different word each time, "sent" groups
\* the words in sentences ("Abxx ... yyxx. Bcxx ...").
Block(kind, k, base) ==
    LET w == WordWidth(kind)
    IN  [i \in 1..(k * (w + 1) - 1) |->
            LET u == (i - 1) \div (w + 1)
                o == (i - 1) % (w + 1)
                j == IF kind = "same" THEN 0 ELSE base + u
            IN  IF o = w THEN " "
                ELSE IF kind = "sent" /\ o = 0 /\ u % SentenceWords = 0
                     THEN Upper[(j % 26) + 1]
                ELSE IF kind = "sent" /\ o = w - 1
                        /\ u % SentenceWords = SentenceWords - 1
                     THEN "."
                ELSE WordChar(j, o)]

Separator(sep) ==
    CASE sep = "para"  -> <<"\n", "\n">>
      [] sep = "wide"  -> <<"\r", "\n", "\r", "\n", "\r", "\n", " ">>
      [] sep = "line"  -> <<"\n">>
      [] OTHER         -> <<" ">>

SourceLine == Chars("Source: https://hfim.uga.edu/visit")

\* crawlBFS.js line 64: `# ${title}\n\nSource: ${url}\n\n${...}`
DocHead(head) ==
    CASE head = "title"  -> Chars("# Visit") \o <<"\n", "\n">> \o SourceLine
                            \o <<"\n", "\n">>
      [] head = "source" -> SourceLine \o <<"\n", "\n">>
      [] OTHER           -> <<>>

RECURSIVE Blocks(_, _, _, _)
Blocks(kind, k, sep, m) ==
    IF m = 1 THEN Block(kind, k, 0)
    ELSE Blocks(kind, k, sep, m - 1) \o Separator(sep)
         \o Block(kind, k, (m - 1) * k)

\* k times the words "ab" and "abcdefghijklmno": a short word that is also
\* the beginning of the long one
StemUnit == Chars("ab abcdefghijklmno ")

RECURSIVE Stems(_)
Stems(k) == IF k = 0 THEN <<>> ELSE Stems(k - 1) \o StemUnit

DocText(d) ==
    IF d.kind = "solid" THEN DocHead(d.head) \o Rep(d.k, "a")
    ELSE IF d.kind = "stem" THEN Stems(d.k)
    ELSE IF d.kind = "blank" THEN Rep(d.k, " ") \o <<"\n", "\n", "\t">>
    ELSE DocHead(d.head) \o Blocks(d.kind, d.k, d.sep, d.m)

SolidDocs ==
    [head : {"none"}, kind : {"solid"}, sep : {"space"}, m : {1},
     k : {0, 50, 99, 100, 101, 399, 400, 401, 500, 501, 850, 1200, 1201,
          1700, 2450}]

BlankDocs ==
    [head : {"none"}, kind : {"blank"}, sep : {"space"}, m : {1}, k : {3}]

ProseDocs ==
    [head : {"none", "source", "title"},
     kind : {"words", "same", "short", "sent"},
     sep  : {"para", "space"},
     m    : 1..MaxBlocks,
     k    : {9, 56}]

OddDocs ==
    [head : {"title"}, kind : {"words"}, sep : {"wide", "line"},
     m : {MaxBlocks}, k : {56}]

StemDocs ==
    [head : {"none"}, kind : {"stem"}, sep : {"space"}, m : {1}, k : {40}]

Documents ==
    SolidDocs \cup BlankDocs \cup ProseDocs \cup OddDocs \cup StemDocs

Texts == {DocText(d) : d \in Documents} \cup {Null}

MaxCharsValues == {400, 500, 1200}

OverlapValues == {0, 200}

-----------------------------------------------------------------------------
(* chunkText as a state machine *)

\* The floor applied to a document of exactly the minimum length
IsTooShortInclusive(c) == c = <<>> \/ Len(c) <= MIN_DOC_LENGTH

\* Line 12: !clean || clean.length < 100
IsTooShort(c) == c = <<>> \/ Len(c) < MIN_DOC_LENGTH

\* Line 17: clean.length <= maxChars
FitsOneChunk(c, mc) == Len(c) <= mc

\* No call of retrieveRelevantChunks is in progress
RetrieveIdle ==
    /\ userQuestion = <<>>
    /\ topK = 0
    /\ minSimilarity = <<>>
    /\ records = {}
    /\ rpc = "idle"
    /\ isAggregationQuery = FALSE
    /\ queryNo = 0
    /\ allMatches = <<>>
    /\ seenIds = {}
    /\ asked = <<>>
    /\ returned = <<>>
    /\ thrown = ""

\* The server process is not run
ServerIdle ==
    /\ serverVersion = ""
    /\ serverEnv = {}
    /\ debugRag = FALSE
    /\ promptReadable = FALSE
    /\ spc = "off"
    /\ request = <<>>
    /\ response = <<>>
    /\ serverCalls = <<>>
    /\ served = 0

\* The crawler is not run
CrawlIdle ==
    /\ START_URL = ""
    /\ MAX_PAGES = 0
    /\ MAX_DEPTH = 0
    /\ cpc = "idle"
    /\ queue = <<>>
    /\ visited = {}
    /\ count = 0
    /\ fetched = <<>>
    /\ enqueued = {}

\* No run of ingest() is in progress
IngestIdle ==
    /\ ingestEnv = {}
    /\ version = ""
    /\ flags = {}
    /\ docsDir = {}
    /\ unreadable = {}
    /\ indexState = "absent"
    /\ store = {}
    /\ run = 0
    /\ ipc = "idle"
    /\ files = <<>>
    /\ fileNo = 0
    /\ batchStart = 0
    /\ vectors = <<>>
    /\ idCounter = 0
    /\ log = <<>>

InitChunk ==
    /\ CrawlIdle
    /\ RetrieveIdle
    /\ IngestIdle
    /\ ServerIdle
    /\ text \in Texts
    /\ maxChars \in MaxCharsValues
    /\ overlap \in OverlapValues
    /\ pc = "call"
    /\ clean = <<>>
    /\ sourceHeader = <<>>
    /\ start = 0
    /\ chunks = <<>>
    /\ result = <<>>
    /\ windows = <<>>

\* Lines 4-9
Clean ==
    /\ pc = "call"
    /\ clean' = Normalize(text)
    /\ pc' = "check"
    /\ UNCHANGED retrieveVars
    /\ UNCHANGED <<ingestVars, serverVars, crawlVars>>
    /\ UNCHANGED <<text, maxChars, overlap, sourceHeader, start, chunks,
                   result, windows>>

\* Lines 12-14: if (!clean || clean.length < 100) return []
RejectShort ==
    /\ pc = "check"
    /\ IsTooShort(clean)
    /\ result' = <<>>
    /\ pc' = "done"
    /\ UNCHANGED retrieveVars
    /\ UNCHANGED <<ingestVars, serverVars, crawlVars>>
    /\ UNCHANGED <<text, maxChars, overlap, clean, sourceHeader, start,
                   chunks, windows>>

\* Lines 17-19: if (clean.length <= maxChars) return [clean]
ReturnSingle ==
    /\ pc = "check"
    /\ ~IsTooShort(clean)
    /\ FitsOneChunk(clean, maxChars)
    /\ result' = <<clean>>
    /\ pc' = "done"
    /\ UNCHANGED retrieveVars
    /\ UNCHANGED <<ingestVars, serverVars, crawlVars>>
    /\ UNCHANGED <<text, maxChars, overlap, clean, sourceHeader, start,
                   chunks, windows>>

\* Lines 21-31
BeginLoop ==
    /\ pc = "check"
    /\ ~IsTooShort(clean)
    /\ ~FitsOneChunk(clean, maxChars)
    /\ chunks' = <<>>
    /\ start' = 0
    /\ sourceHeader' = SourceHeaderOf(clean)
    /\ pc' = "loop"
    /\ UNCHANGED retrieveVars
    /\ UNCHANGED <<ingestVars, serverVars, crawlVars>>
    /\ UNCHANGED <<text, maxChars, overlap, clean, result, windows>>

\* Lines 148-150 and the loop condition of line 33
AfterWindow(s) ==
    IF s >= Len(clean) - TAIL_SLACK \/ ~(s < Len(clean)) THEN "post" ELSE "loop"

\* Lines 33-135, 147-150: an iteration that accepts its chunk
EmitChunk ==
    /\ pc = "loop"
    /\ LET w == WindowChunk(clean, start, maxChars)
       IN  /\ Len(w.chunk) >= MIN_CHUNK_SIZE
           /\ LET hdr   == PrependsHeader(Len(chunks), sourceHeader, w.chunk)
                  chunk == IF hdr THEN WithHeader(sourceHeader, w.chunk)
                           ELSE w.chunk
                  adv   == MinAdvance(Len(chunk), overlap)
              IN  /\ chunks' = Append(chunks, chunk)
                  /\ start' = start + adv
                  /\ pc' = AfterWindow(start + adv)
                  /\ windows' = Append(windows,
                        [start |-> start, end |-> w.end, lead |-> w.lead,
                         body |-> Len(w.chunk), header |-> hdr,
                         advance |-> adv, emitted |-> TRUE,
                         type |-> w.best.type, cut |-> w.apply])
    /\ UNCHANGED retrieveVars
    /\ UNCHANGED <<ingestVars, serverVars, crawlVars>>
    /\ UNCHANGED <<text, maxChars, overlap, clean, sourceHeader, result>>

\* Lines 33-120, 136-150: an iteration that skips a chunk below the minimum
SkipChunk ==
    /\ pc = "loop"
    /\ LET w == WindowChunk(clean, start, maxChars)
       IN  /\ ~(Len(w.chunk) >= MIN_CHUNK_SIZE)
           /\ start' = start + MIN_CHUNK_SIZE
           /\ pc' = AfterWindow(start + MIN_CHUNK_SIZE)
           /\ windows' = Append(windows,
                 [start |-> start, end |-> w.end, lead |-> w.lead,
                  body |-> Len(w.chunk), header |-> FALSE,
                  advance |-> MIN_CHUNK_SIZE, emitted |-> FALSE,
                  type |-> w.best.type, cut |-> w.apply])
    /\ UNCHANGED retrieveVars
    /\ UNCHANGED <<ingestVars, serverVars, crawlVars>>
    /\ UNCHANGED <<text, maxChars, overlap, clean, sourceHeader, chunks,
                   result>>

\* Lines 153-192
Finish ==
    /\ pc = "post"
    /\ result' = ValidChunks(DropSmallLast(chunks))
    /\ pc' = "done"
    /\ UNCHANGED retrieveVars
    /\ UNCHANGED <<ingestVars, serverVars, crawlVars>>
    /\ UNCHANGED <<text, maxChars, overlap, clean, sourceHeader, start,
                   chunks, windows>>

NextChunk ==
    \/ Clean
    \/ RejectShort
    \/ ReturnSingle
    \/ BeginLoop
    \/ EmitChunk
    \/ SkipChunk
    \/ Finish

SpecChunk == InitChunk /\ [][NextChunk]_vars

-----------------------------------------------------------------------------
(* Properties of chunkText *)

Done == pc = "done"

\* The chunk c carries the re-prepended header and its separator
HasPrependedHeader(c) ==
    sourceHeader # <<>> /\ StartsWith(c, WithHeader(sourceHeader, <<>>))

\* At most maxChars, but for the re-prepended header and its separator
WithinMaxChars(c) ==
    \/ Len(c) <= maxChars
    \/ HasPrependedHeader(c) /\ Len(c) <= maxChars + Len(sourceHeader) + 2

CeilDiv(a, b) == (a + b - 1) \div b

\* Every iteration of the window loop has moved start forward by at least
\* MIN_CHUNK_SIZE, and the windows examined and the chunks emitted number at
\* most ceil(normalized length / MIN_CHUNK_SIZE)
WindowsAdvanceAndAreBounded ==
    /\ \A i \in 1..Len(windows) :
          /\ windows[i].advance >= MIN_CHUNK_SIZE
          /\ windows[i].start >= (i - 1) * MIN_CHUNK_SIZE
          /\ i < Len(windows)
                => windows[i + 1].start = windows[i].start + windows[i].advance
    /\ pc \in {"loop", "post"}
          => /\ start >= Len(windows) * MIN_CHUNK_SIZE
             /\ Len(windows) >= 1
                   => start = windows[Len(windows)].start
                              + windows[Len(windows)].advance
    /\ Len(windows) <= CeilDiv(Len(clean), MIN_CHUNK_SIZE)
    /\ Len(chunks) <= Len(windows)
    /\ Len(result) <= Max(Len(windows), 1)

\* What is left to do: the steps before and after the loop, and in the loop
\* the characters from start to the end of the text
Remaining ==
    CASE pc = "call"  -> Len(text) + 4
      [] pc = "check" -> Len(text) + 3
      [] pc = "loop"  -> Len(clean) - start + 1
      [] pc = "post"  -> 1
      [] OTHER        -> 0

\* C2: chunkText halts on every input (every step lowers Remaining, which
\* stays a natural number); every iteration of the window loop moves start
\* forward by at least MIN_CHUNK_SIZE, so the windows examined and the chunks
\* emitted number at most ceil(normalized length / 400), whatever the text.
C2_HaltsWithBoundedWindows ==
    [][/\ Remaining' < Remaining
       /\ Remaining' >= 0
       /\ pc = "loop" => start' >= start + MIN_CHUNK_SIZE
       /\ WindowsAdvanceAndAreBounded']_vars

\* A text without any whitespace, chunked in three windows or more
C2_Witness ==
    /\ Done
    /\ Len(windows) >= 3
    /\ Len(windows) = CeilDiv(Len(clean), MIN_CHUNK_SIZE)
    /\ \A i \in 1..Len(clean) : ~IsWs(clean[i])

\* The pairs (i, j) of windows that emitted consecutive chunks, neither with
\* a prepended header
ConsecutivePlain ==
    {p \in (1..Len(windows)) \X (1..Len(windows)) :
        /\ p[1] < p[2]
        /\ windows[p[1]].emitted /\ windows[p[2]].emitted
        /\ \A k \in (p[1] + 1)..(p[2] - 1) : ~windows[k].emitted
        /\ ~windows[p[1]].header /\ ~windows[p[2]].header}

DocumentHeader(t) == IF t = Null THEN <<>> ELSE SourceHeaderOf(t)

\* The "Source: <url>" line of the raw document
DocumentSourceLine(t) ==
    Slice(DocumentHeader(t), TitleGroupEnd(t), Len(DocumentHeader(t)))

\* C4: when the original document starts with a source-attribution header (a
\* "Source: <url>" line, with or without a "# title" line before it), every
\* chunk chunkText returns after the first begins with that source header.
C4_LaterChunksBeginWithHeader ==
    (Done /\ DocumentHeader(text) # <<>>)
        => \A i \in 2..Len(result) :
              \/ StartsWith(result[i], DocumentSourceLine(text))
              \/ StartsWith(result[i], Normalize(DocumentHeader(text)))

\* The raw text is in normal form but for its paragraph breaks: words
\* separated by one space or by one "\n\n"
IsParagraphNormal(t) ==
    /\ t # Null
    /\ Trim(t) = t
    /\ \A i \in 1..Len(t) :
          IsWs(t[i]) =>
              \/ t[i] = " " /\ ~IsWs(t[i - 1]) /\ ~IsWs(t[i + 1])
              \/ t[i] = "\n" /\ t[i + 1] = "\n" /\ ~IsWs(t[i - 1])
              \/ t[i] = "\n" /\ t[i - 1] = "\n" /\ ~IsWs(t[i + 1])

\* The last paragraph break of the first window of t at or after 50% of
\* maxChars, or -1
LastParagraphBreakOfFirstWindow(t, mc) ==
    LET ok == {p \in ParagraphBreaks(Slice(t, 0, mc)) : 2 * p >= mc}
    IN  IF ok = {} THEN -1 ELSE MaxOf(ok)

\* The characters of t that are not whitespace
WithoutWs(t) == SelectSeq(t, LAMBDA c : ~IsWs(c))

\* C5: in a non-final window that contains a paragraph break at or after 50%
\* of maxChars, the chunk is cut at the last such paragraph break, and no
\* boundary of lower priority is used.  Stated for the first window of a
\* document longer than maxChars whose only whitespace beside single spaces
\* is its paragraph breaks.
C5_FirstWindowCutAtParagraphBreak ==
    (/\ Done
     /\ IsParagraphNormal(text)
     /\ Len(text) > maxChars
     /\ LastParagraphBreakOfFirstWindow(text, maxChars) > MIN_CHUNK_SIZE)
        => /\ Len(windows) >= 1
           /\ windows[1].cut
           /\ windows[1].type = "paragraph"
           /\ WithoutWs(chunks[1])
                = WithoutWs(Slice(text, 0,
                      LastParagraphBreakOfFirstWindow(text, maxChars)))

\* C6: no chunk chunkText returns, after its attribution header is stripped,
\* lacks a run of at least 10 consecutive letters; this holds for a document
\* returned as a single chunk too.
C6_EveryChunkHasRealContent ==
    Done => \A i \in 1..Len(result) : HasRealContent(StripSource(result[i]))

\* C8: a text whose normalized length is below 100 (empty, whitespace-only
\* and null input included) gives the empty sequence; one of normalized
\* length 100..maxChars gives exactly one chunk, the normalized text, however
\* short.
C8_ShortTextsAndSingleChunks ==
    Done =>
        LET norm == Normalize(text)
        IN  /\ Len(norm) < MIN_DOC_LENGTH => result = <<>>
            /\ (Len(norm) >= MIN_DOC_LENGTH /\ Len(norm) <= maxChars)
                  => result = <<norm>>

\* A document of 100 characters exactly, returned as its single chunk
C8_Witness ==
    /\ Done
    /\ text # Null
    /\ Len(Normalize(text)) = MIN_DOC_LENGTH
    /\ Len(Normalize(text)) < MIN_CHUNK_SIZE
    /\ result = <<Normalize(text)>>

\* ---------------------------------------------------------------------------
\* retrieveRelevantChunks (rag/verifyChunking.js lines 183-326)
\* Scores and thresholds are in thousandths: 0.75 is 750.

\* process.env.MIN_SIMILARITY is a sequence: empty when the variable is not
\* set (or set to the empty string), else holding its value
Unset == <<>>

\* Lines 185-198
aggregationKeywords ==
    { Chars("top"), Chars("list"), Chars("all"), Chars("what internships"),
      Chars("past students"), Chars("examples of"), Chars("types of"),
      Chars("kinds of"), Chars("where have students"), Chars("placement"),
      Chars("companies"), Chars("organizations") }

\* The classification with the lower-casing of line 200 left out
IsAggregationQueryCaseSensitive(q) ==
    /\ \E keyword \in aggregationKeywords : Includes(q, keyword)
    /\ \/ Includes(q, Chars("internship"))
       \/ Includes(q, Chars("placement"))

\* Lines 200-204
IsAggregationQuery(q) ==
    LET questionLower == ToLowerCase(q)
    IN  /\ \E keyword \in aggregationKeywords :
               Includes(questionLower, keyword)
        /\ \/ Includes(questionLower, Chars("internship"))
           \/ Includes(questionLower, Chars("placement"))

\* Lines 216-222: the number of entries of searchQueries
NumSearchQueries == 5

\* Line 236: the per-query cap of the fan-out
FANOUT_CAP == 20

\* Line 236: Math.min(topK * 2, 20)
FanoutTopK(k) == Min(k * 2, FANOUT_CAP)

\* Line 252: topK * 3
AggregationLimit(k) == k * 3

\* Lines 255 and 304: the default of MIN_SIMILARITY, 0.75
DEFAULT_MIN_SIMILARITY == 750

\* Lines 255 and 304: Number(process.env.MIN_SIMILARITY || 0.75)
BaseThreshold(env) ==
    IF env = Unset THEN DEFAULT_MIN_SIMILARITY ELSE env[1]

\* The threshold of the aggregation path without the factor of line 256
ThresholdTimes10Unrelaxed(env, aggregation) == 10 * BaseThreshold(env)

\* Lines 256 and 304: the threshold, times 10 so that 0.7 * base is a whole
\* number
ThresholdTimes10(env, aggregation) ==
    IF aggregation THEN 7 * BaseThreshold(env) ELSE 10 * BaseThreshold(env)

\* Lines 257 and 305: matches[0]?.score ?? 0
TopScore(matches) == IF Len(matches) = 0 THEN 0 ELSE matches[1].score

\* Lines 258 and 306
BelowThreshold(matches, env, aggregation) ==
    \/ Len(matches) = 0
    \/ 10 * TopScore(matches) < ThresholdTimes10(env, aggregation)

\* The index: a namespace of records; the score of a record depends on the
\* query vector.  A query vector is one of a few kinds, each ranking the
\* records its own way.

\* The number of records of a namespace that is not empty
MaxIds == 5

\* The number of records of a namespace that holds more records than one
\* fan-out query may ask for
LargeIds == FANOUT_CAP + 1

\* The namespaces: empty, or holding the records 1..MaxIds
Namespaces == { {}, 1..MaxIds }

\* A namespace holding the records 1..LargeIds
LargeNamespace == 1..LargeIds

QueryKinds == {"rising", "falling", "high", "low"}

\* The similarity of record id to a query vector of the given kind
Score(kind, id) ==
    CASE kind = "rising"  -> IF id <= 10 THEN 500 + 25 * id ELSE 650 + 10 * id
      [] kind = "falling" -> 775 - 25 * id
      [] kind = "high"    -> IF id <= 10 THEN 800 + 10 * id ELSE 900 - 10 * id
      [] kind = "low"     -> 550 - 25 * id

\* The merged matches left in the order they were pushed
SortByScoreUnsorted(matches) == matches

\* Line 251: Array.prototype.sort((a, b) => b.score - a.score), which is
\* stable
SortByScore(matches) ==
    LET n == Len(matches)
        pos(i) == 1 + Cardinality({j \in 1..n :
                         \/ matches[j].score > matches[i].score
                         \/ /\ matches[j].score = matches[i].score
                            /\ j < i})
    IN  [p \in 1..n |-> matches[CHOOSE i \in 1..n : pos(i) = p]]

\* The entries ranked by the index, best score first (a query vector gives
\* no two records the same score)
BestFirst(entries) ==
    LET n == Len(entries)
    IN  [p \in 1..n |->
            entries[CHOOSE i \in 1..n :
                Cardinality({j \in 1..n :
                    entries[j].score > entries[i].score}) = p - 1]]

\* The records of a namespace 1..n with their scores for a query vector of
\* the given kind, in id order
Entries(kind, recs) ==
    [id \in 1..Cardinality(recs) |-> [id |-> id, score |-> Score(kind, id)]]

\* Lines 234-238 and 297-301: ns.query({vector, topK}) answers with the k
\* best scoring records, best first
QueryIndex(kind, recs, k) == Slice(BestFirst(Entries(kind, recs)), 0, k)

\* The merge without the seenIds test of line 242
AddAll(all, seen, matches) ==
    [allMatches |-> all \o matches,
     seenIds |-> seen \cup {matches[i].id : i \in 1..Len(matches)}]

\* Lines 241-246: add the matches whose id was not seen yet
RECURSIVE AddUnique(_, _, _)
AddUnique(all, seen, matches) ==
    IF matches = <<>>
    THEN [allMatches |-> all, seenIds |-> seen]
    ELSE IF Head(matches).id \in seen
         THEN AddUnique(all, seen, Tail(matches))
         ELSE AddUnique(Append(all, Head(matches)),
                        seen \cup {Head(matches).id}, Tail(matches))

\* Lines 250-258, 282-287 and 303-306, 325: the value returned
RetrievalResult(matches, env, aggregation) ==
    [matches        |-> matches,
     belowThreshold |-> BelowThreshold(matches, env, aggregation),
     topScore       |-> TopScore(matches),
     isAggregation  |-> aggregation]

\* The questions asked
Questions ==
    { Chars("TOP INTERNSHIPS"),
      Chars("what internships exist"),
      Chars("placement"),
      Chars("laptop for my Internship"),
      Chars("internship credit"),
      Chars("list of all companies"),
      Chars("dress code"),
      <<>> }

TopKValues == {1, 2}

MinSimilarityValues == {Unset, <<500>>, <<900>>}

\* The calls made, each <<topK, namespace, MIN_SIMILARITY>>: small values of
\* topK against the small namespaces under every threshold, and topK = 1 and
\* a topK above the fan-out cap against the large namespace
Calls ==
    (TopKValues \X Namespaces \X MinSimilarityValues)
        \cup ({1, FANOUT_CAP + 1} \X {LargeNamespace} \X {Unset})

\* No call of chunkText is in progress
ChunkIdle ==
    /\ text = <<>>
    /\ maxChars = 0
    /\ overlap = 0
    /\ pc = "idle"
    /\ clean = <<>>
    /\ sourceHeader = <<>>
    /\ start = 0
    /\ chunks = <<>>
    /\ result = <<>>
    /\ windows = <<>>

InitRetrieve ==
    /\ CrawlIdle
    /\ ChunkIdle
    /\ IngestIdle
    /\ ServerIdle
    /\ userQuestion \in Questions
    /\ \E call \in Calls :
          /\ topK = call[1]
          /\ records = call[2]
          /\ minSimilarity = call[3]
    /\ rpc = "call"
    /\ isAggregationQuery = FALSE
    /\ queryNo = 0
    /\ allMatches = <<>>
    /\ seenIds = {}
    /\ asked = <<>>
    /\ returned = <<>>
    /\ thrown = ""

\* Lines 200-204
Classify ==
    /\ rpc = "call"
    /\ isAggregationQuery' = IsAggregationQuery(userQuestion)
    /\ rpc' = "getIndex"
    /\ UNCHANGED thrown
    /\ UNCHANGED chunkVars
    /\ UNCHANGED <<ingestVars, serverVars, crawlVars>>
    /\ UNCHANGED <<userQuestion, topK, minSimilarity, records, queryNo,
                   allMatches, seenIds, asked, returned>>

\* Lines 206-207: getPineconeIndex() resolves
GetIndex ==
    /\ rpc = "getIndex"
    /\ spc # "off" => {"PINECONE_API_KEY", "PINECONE_INDEX_NAME"}
                         \subseteq serverEnv
    /\ queryNo' = 1
    /\ rpc' = "embed"
    /\ UNCHANGED thrown
    /\ UNCHANGED chunkVars
    /\ UNCHANGED <<ingestVars, serverVars, crawlVars>>
    /\ UNCHANGED <<userQuestion, topK, minSimilarity, records,
                   isAggregationQuery, allMatches, seenIds, asked, returned>>

\* Line 206: getPineconeIndex() rejects
GetIndexFails ==
    /\ rpc = "getIndex"
    /\ rpc' = "threw"
    /\ thrown' = "getPineconeIndex"
    /\ UNCHANGED chunkVars
    /\ UNCHANGED <<ingestVars, serverVars, crawlVars>>
    /\ UNCHANGED <<userQuestion, topK, minSimilarity, records,
                   isAggregationQuery, queryNo, allMatches, seenIds, asked,
                   returned>>

\* Lines 228-232 and 291-295: openai.embeddings.create() resolves
Embed ==
    /\ rpc = "embed"
    /\ rpc' = "query"
    /\ UNCHANGED thrown
    /\ UNCHANGED chunkVars
    /\ UNCHANGED <<ingestVars, serverVars, crawlVars>>
    /\ UNCHANGED <<userQuestion, topK, minSimilarity, records,
                   isAggregationQuery, queryNo, allMatches, seenIds, asked,
                   returned>>

\* Lines 228 and 291: openai.embeddings.create() rejects
EmbedFails ==
    /\ rpc = "embed"
    /\ rpc' = "threw"
    /\ thrown' = "embeddings.create"
    /\ UNCHANGED chunkVars
    /\ UNCHANGED <<ingestVars, serverVars, crawlVars>>
    /\ UNCHANGED <<userQuestion, topK, minSimilarity, records,
                   isAggregationQuery, queryNo, allMatches, seenIds, asked,
                   returned>>

\* The query vectors the index may be asked with: one kind is enough for an
\* empty namespace, which answers every vector alike
KindsFor(recs) == IF recs = {} THEN {"rising"} ELSE QueryKinds

\* The answers the index may give a query asking for k matches: one for each
\* kind of query vector
IndexAnswers(recs, k) ==
    {[topK |-> k, kind |-> kind, matches |-> QueryIndex(kind, recs, k)] :
        kind \in KindsFor(recs)}

\* Lines 234-287: ns.query() resolves for one of searchQueries; after the
\* last one the merged matches are sorted, cut and returned
QueryFanout ==
    /\ rpc = "query"
    /\ isAggregationQuery
    /\ \E answer \in IndexAnswers(records, FanoutTopK(topK)) :
       \E merged \in {AddUnique(allMatches, seenIds, answer.matches)} :
          /\ asked' = Append(asked, [query |-> queryNo] @@ answer)
          /\ seenIds' = merged.seenIds
          /\ IF queryNo < NumSearchQueries
             THEN /\ allMatches' = merged.allMatches
                  /\ queryNo' = queryNo + 1
                  /\ rpc' = "embed"
                  /\ UNCHANGED returned
             ELSE \E sorted \in {SortByScore(merged.allMatches)} :
                  /\ allMatches' = sorted
                  /\ rpc' = "done"
                  /\ returned' =
                        <<RetrievalResult(
                              Slice(sorted, 0, AggregationLimit(topK)),
                              minSimilarity, TRUE)>>
                  /\ UNCHANGED queryNo
    /\ UNCHANGED thrown
    /\ UNCHANGED chunkVars
    /\ UNCHANGED <<ingestVars, serverVars, crawlVars>>
    /\ UNCHANGED <<userQuestion, topK, minSimilarity, records,
                   isAggregationQuery>>

\* Lines 297-325: ns.query() resolves on the single-query path
QuerySingle ==
    /\ rpc = "query"
    /\ ~isAggregationQuery
    /\ \E answer \in IndexAnswers(records, topK) :
          /\ asked' = Append(asked, [query |-> queryNo] @@ answer)
          /\ returned' =
                <<RetrievalResult(answer.matches, minSimilarity, FALSE)>>
    /\ rpc' = "done"
    /\ UNCHANGED thrown
    /\ UNCHANGED chunkVars
    /\ UNCHANGED <<ingestVars, serverVars, crawlVars>>
    /\ UNCHANGED <<userQuestion, topK, minSimilarity, records,
                   isAggregationQuery, queryNo, allMatches, seenIds>>

\* Lines 234 and 297: ns.query() rejects
QueryFails ==
    /\ rpc = "query"
    /\ rpc' = "threw"
    /\ thrown' = "ns.query"
    /\ UNCHANGED chunkVars
    /\ UNCHANGED <<ingestVars, serverVars, crawlVars>>
    /\ UNCHANGED <<userQuestion, topK, minSimilarity, records,
                   isAggregationQuery, queryNo, allMatches, seenIds, asked,
                   returned>>

NextRetrieve ==
    \/ Classify
    \/ GetIndex
    \/ GetIndexFails
    \/ Embed
    \/ EmbedFails
    \/ QueryFanout
    \/ QuerySingle
    \/ QueryFails

SpecRetrieve == InitRetrieve /\ [][NextRetrieve]_vars

-----------------------------------------------------------------------------
\* ingest() and processFile(): unnamed/part_003, and the processFile of
\* rag/ingest.js, which differs in the ids and the metadata of its records

\* part_003 line 24
BATCH_SIZE == 10

\* part_003 line 27
INDEX_DIM == 3072

\* part_003 line 28
INDEX_METRIC == "cosine"

\* The files docs/ may hold, in the order readdirSync lists them
FileNames == <<"a.pdf", "a.txt", "b.md", "c.docx", "d.txt", "e.txt">>

\* part_003 line 293: fs.readdirSync(docsDir)
ReadDir(dir) == SelectSeq(FileNames, LAMBDA f : f \in dir)

\* String.prototype.endsWith
EndsWith(t, p) == Len(t) >= Len(p) /\ MatchAt(t, Len(t) - Len(p), p)

\* part_003 line 195: fileName.toLowerCase().endsWith('.pdf')
IsPdf(fileName) == EndsWith(ToLowerCase(Chars(fileName)), Chars(".pdf"))

\* part_003 line 196: /\.(txt|md)$/i.test(fileName)
IsTxtOrMd(fileName) ==
    \/ EndsWith(ToLowerCase(Chars(fileName)), Chars(".txt"))
    \/ EndsWith(ToLowerCase(Chars(fileName)), Chars(".md"))

\* part_003 lines 172-177: the path with its extension replaced by .txt
EnsureTxtFromPdf(fileName) ==
    LET dot == MaxOf({k \in 1..Len(fileName) : SubSeq(fileName, k, k) = "."})
    IN  SubSeq(fileName, 1, dot - 1) \o ".txt"

\* The text of a file; a PDF and the .txt made from it hold the same text
TextOf(fileName) ==
    IF IsPdf(fileName) THEN EnsureTxtFromPdf(fileName) ELSE fileName

\* part_003 line 227: the number of chunks chunkText cuts the text of a file
\* into
ChunkCount(fileName) ==
    CASE TextOf(fileName) = "a.txt" -> BATCH_SIZE + 1
      [] TextOf(fileName) = "b.md"  -> 2 * BATCH_SIZE + 1
      [] TextOf(fileName) = "d.txt" -> BATCH_SIZE
      [] OTHER -> 0

\* part_003 line 227: the chunks of a file, in text order; the chunk of
\* index k is chunks[k + 1]
ChunksOf(fileName) ==
    [k \in 1..ChunkCount(fileName) |->
        [text |-> TextOf(fileName), part |-> k - 1]]

\* part_003 lines 158-164: embedTexts gives one vector for each text, in the
\* order of the texts
EmbedTexts(texts) == [j \in 1..Len(texts) |-> [embeddingOf |-> texts[j]]]

\* The id taken from the position of the chunk in its batch
MakeChunkIdInBatch(fileName, chunkIndex) ==
    <<"sha1", fileName, chunkIndex % BATCH_SIZE>>

\* part_003 lines 48-54: the first 20 hex digits of the SHA-1 of
\* `${fileName}|${chunkIndex}`, taken to differ for different
\* (fileName, chunkIndex)
MakeChunkId(fileName, chunkIndex) == <<"sha1", fileName, chunkIndex>>

\* ingest.js line 155: `doc-${idCounterRef.value++}`
CounterId(counter) == <<"doc", counter>>

\* part_003 line 231: chunks.slice(i, i + BATCH_SIZE)
BatchSlice(fileName, i) == Slice(ChunksOf(fileName), i, i + BATCH_SIZE)

\* part_003 lines 230-245 and ingest.js lines 151-159: the records of the
\* batch of chunks i .. i + BATCH_SIZE - 1 of a file
BatchVectors(ver, fileName, i, counter) ==
    LET fileChunks == ChunksOf(fileName)
        slice == BatchSlice(fileName, i)
        embeddings == EmbedTexts(slice)
    IN  [idx \in 1..Len(embeddings) |->
            IF ver = "part_003"
            THEN [id |-> MakeChunkId(fileName, i + idx - 1),
                  values |-> embeddings[idx],
                  metadata |-> [source |-> fileName,
                                sourceFile |-> fileName,
                                url |-> "",
                                text |-> slice[idx],
                                chunkIndex |-> i + idx - 1,
                                totalChunks |-> Len(fileChunks)]]
            ELSE [id |-> CounterId(counter + idx - 1),
                  values |-> embeddings[idx],
                  metadata |-> [source |-> fileName,
                                text |-> slice[idx]]]]

\* An upsert that leaves only the records of its batch in the namespace
UpsertOnlyBatch(namespace, batch) == {batch[j] : j \in 1..Len(batch)}

\* index.upsert: a record replaces the record of the same id
Upsert(namespace, batch) ==
    {r \in namespace : \A j \in 1..Len(batch) : batch[j].id # r.id}
        \cup {batch[j] : j \in 1..Len(batch)}

\* A record of a file ingested before the first run
StaleRecord ==
    [id |-> <<"sha1", "old.txt", 0>>,
     values |-> [embeddingOf |-> [text |-> "old.txt", part |-> 0]],
     metadata |-> [source |-> "old.txt", sourceFile |-> "old.txt",
                   url |-> "", text |-> [text |-> "old.txt", part |-> 0],
                   chunkIndex |-> 0, totalChunks |-> 1]]

\* The number of chunks of the text d.txt held when it was ingested before
\* the first run, after which it was cut down to ChunkCount("d.txt") chunks
EarlierChunkCount == BATCH_SIZE + 2

\* part_003 lines 234-245: the records the ingestion of that earlier text
\* upserted, one for each of its chunks
EarlierRecords ==
    {[id |-> MakeChunkId("d.txt", k),
      values |-> [embeddingOf |-> [text |-> "d.txt, earlier", part |-> k]],
      metadata |-> [source |-> "d.txt", sourceFile |-> "d.txt",
                    url |-> "", text |-> [text |-> "d.txt, earlier", part |-> k],
                    chunkIndex |-> k, totalChunks |-> EarlierChunkCount]] :
        k \in 0..(EarlierChunkCount - 1)}

\* The namespaces the first run may find in an index that exists: a record
\* of a file no longer in docs/, with or without the records of the earlier
\* text of d.txt
EarlierStores(dir) ==
    IF "d.txt" \in dir
    THEN {{StaleRecord}, {StaleRecord} \cup EarlierRecords}
    ELSE {{StaleRecord}}

\* The number of ingestion runs made one after the other
MaxRuns == 2

\* The docs/ folders, flags and index states ingestion is run with
Setups ==
    { [docsDir |-> {"a.pdf", "b.md"}, unreadable |-> {}, flags |-> {},
       indexState |-> "absent"],
      [docsDir |-> {"a.pdf", "d.txt"}, unreadable |-> {}, flags |-> {},
       indexState |-> "ready"],
      [docsDir |-> {"b.md", "c.docx", "d.txt", "e.txt"},
       unreadable |-> {"b.md"}, flags |-> {}, indexState |-> "ready"],
      [docsDir |-> {"a.pdf", "d.txt"}, unreadable |-> {"a.pdf"},
       flags |-> {}, indexState |-> "absent"],
      [docsDir |-> {"a.pdf", "d.txt"}, unreadable |-> {},
       flags |-> {"--dry"}, indexState |-> "ready"],
      [docsDir |-> {"a.pdf", "d.txt"}, unreadable |-> {},
       flags |-> {"--skip-pdf"}, indexState |-> "ready"],
      [docsDir |-> {"d.txt"}, unreadable |-> {},
       flags |-> {"--recreate-index"}, indexState |-> "ready"],
      [docsDir |-> {"d.txt", "e.txt"}, unreadable |-> {},
       flags |-> {"--purge"}, indexState |-> "ready"],
      [docsDir |-> {}, unreadable |-> {}, flags |-> {},
       indexState |-> "ready"],
      [docsDir |-> {"d.txt"}, unreadable |-> {}, flags |-> {"--dry"},
       indexState |-> "absent"],
      [docsDir |-> {"d.txt"}, unreadable |-> {},
       flags |-> {"--dry", "--recreate-index"}, indexState |-> "ready"],
      [docsDir |-> {"d.txt"}, unreadable |-> {},
       flags |-> {"--dry", "--purge"}, indexState |-> "ready"] }

Versions == {"part_003", "ingest.js"}

\* part_003 lines 44-45, 270-277 and 294: the variables ingestion reads that
\* name a credential or the index
IngestEnvVars == {"PINECONE_API_KEY", "OPENAI_API_KEY", "PINECONE_INDEX_NAME"}

\* The environments ingestion is run in: complete, or one variable missing
IngestEnvs == {IngestEnvVars} \cup {IngestEnvVars \ {v} : v \in IngestEnvVars}

\* The setups run in each of these environments
SetupsOfEnvs ==
    {setup \in Setups : setup.docsDir = {"d.txt", "e.txt"}
                            \/ setup.docsDir = {"a.pdf", "b.md"}}

InitIngest ==
    /\ CrawlIdle
    /\ ChunkIdle
    /\ RetrieveIdle
    /\ ServerIdle
    /\ version \in Versions
    /\ \E setup \in Setups :
          /\ ingestEnv \in IF setup \in SetupsOfEnvs THEN IngestEnvs
                           ELSE {IngestEnvVars}
          /\ docsDir = setup.docsDir
          /\ unreadable = setup.unreadable
          /\ flags = setup.flags
          /\ indexState = setup.indexState
          /\ store \in IF setup.indexState = "absent" THEN {{}}
                       ELSE EarlierStores(setup.docsDir)
    /\ run = 1
    /\ ipc = "start"
    /\ files = <<>>
    /\ fileNo = 0
    /\ batchStart = 0
    /\ vectors = <<>>
    /\ idCounter = 0
    /\ log = <<>>

\* An entry of the history of calls
Event(op, fileName, i, ids) ==
    [op |-> op, run |-> run, file |-> fileName, start |-> i, ids |-> ids,
     ready |-> indexState = "ready", parts |-> {}]

\* The entry of an embedding request: parts are the indices of the chunks
\* sent
EmbedEvent(fileName, i) ==
    [Event("embed", fileName, i, {}) EXCEPT
        !.parts = {BatchSlice(fileName, i)[j].part :
                      j \in 1..Len(BatchSlice(fileName, i))}]

\* part_003 lines 305-310: on to the next file, or "Ingestion complete."
NextFile ==
    /\ batchStart' = 0
    /\ IF fileNo < Len(files)
       THEN /\ fileNo' = fileNo + 1
            /\ ipc' = "processFile"
       ELSE /\ ipc' = "complete"
            /\ UNCHANGED fileNo

\* A step of the batch loop one short of the batch size
NextBatchStartOverlapping(i) == i + BATCH_SIZE - 1

\* part_003 line 230: i += BATCH_SIZE
NextBatchStart(i) == i + BATCH_SIZE

\* part_003 lines 230-232: the batch loop of a file goes on with the batch
\* starting at i, whose embedding request it sends, or ends

BatchLoop(i, history) ==
    IF i < ChunkCount(files[fileNo])
    THEN /\ batchStart' = i
         /\ ipc' = "embed"
         /\ log' = Append(history, EmbedEvent(files[fileNo], i))
         /\ UNCHANGED fileNo
    ELSE /\ NextFile
         /\ log' = history

\* part_003 lines 296-308: getOrCreateIndex has returned the index
GotIndex ==
    IF "--purge" \in flags /\ version = "part_003"
    THEN /\ ipc' = "purge"
         /\ UNCHANGED <<fileNo, idCounter>>
    ELSE /\ ipc' = "processFile"
         /\ fileNo' = 1
         /\ idCounter' = 1

\* part_003 lines 272-296: the checks of ingest() and readdirSync
StartRun ==
    /\ ipc = "start"
    /\ files' = ReadDir(docsDir)
    /\ ipc' = IF ~ {"PINECONE_API_KEY", "OPENAI_API_KEY"} \subseteq ingestEnv
              THEN "exit1"
              ELSE IF ReadDir(docsDir) = <<>> THEN "exit0" ELSE "listIndexes"
    /\ UNCHANGED <<chunkVars, retrieveVars, serverVars, crawlVars>>
    /\ UNCHANGED <<ingestEnv, version, flags, docsDir, unreadable, indexState, store,
                   run, fileNo, batchStart, vectors, idCounter, log>>

\* part_003 line 117: names.includes(indexName), indexName being undefined
\* when PINECONE_INDEX_NAME is not set
NamesInclude(state, environment) ==
    state # "absent" /\ "PINECONE_INDEX_NAME" \in environment

\* part_003 lines 114-127: listIndexes() resolves
ListIndexes ==
    /\ ipc = "listIndexes"
    /\ IF NamesInclude(indexState, ingestEnv)
       THEN IF "--recreate-index" \in flags
            THEN /\ ipc' = "deleteIndex"
                 /\ UNCHANGED <<fileNo, idCounter>>
            ELSE GotIndex
       ELSE /\ ipc' = "createIndex"
            /\ UNCHANGED <<fileNo, idCounter>>
    /\ log' = Append(log, Event("listIndexes", "", 0,
                                {IF NamesInclude(indexState, ingestEnv)
                                 THEN indexState ELSE "absent"}))
    /\ UNCHANGED <<chunkVars, retrieveVars, serverVars, crawlVars>>
    /\ UNCHANGED <<ingestEnv, version, flags, docsDir, unreadable, indexState, store,
                   run, files, batchStart, vectors>>

\* part_003 line 121: deleteIndex() resolves
DeleteIndex ==
    /\ ipc = "deleteIndex"
    /\ indexState' = "absent"
    /\ store' = {}
    /\ log' = Append(log, Event("deleteIndex", "", 0, {}))
    /\ ipc' = "createIndex"
    /\ UNCHANGED <<chunkVars, retrieveVars, serverVars, crawlVars>>
    /\ UNCHANGED <<ingestEnv, version, flags, docsDir, unreadable, run, files, fileNo,
                   batchStart, vectors, idCounter>>

\* part_003 lines 133-143: createIndex() resolves
CreateIndex ==
    /\ ipc = "createIndex"
    /\ "PINECONE_INDEX_NAME" \in ingestEnv
    /\ indexState' = "initializing"
    /\ log' = Append(log, Event("createIndex", "", INDEX_DIM, {INDEX_METRIC}))
    /\ ipc' = "describeIndex"
    /\ UNCHANGED <<chunkVars, retrieveVars, serverVars, crawlVars>>
    /\ UNCHANGED <<ingestEnv, version, flags, docsDir, unreadable, store, run, files,
                   fileNo, batchStart, vectors, idCounter>>

\* part_003 lines 133 and 313-316: createIndex() rejects, as it does for an
\* index without name; ingest() rejects and the process exits with code 1
CreateIndexFails ==
    /\ ipc = "createIndex"
    /\ ipc' = "exit1"
    /\ log' = Append(log, Event("createIndexFailed", "", 0, {}))
    /\ UNCHANGED <<chunkVars, retrieveVars, serverVars, crawlVars>>
    /\ UNCHANGED <<ingestEnv, version, flags, docsDir, unreadable, indexState,
                   store, run, files, fileNo, batchStart, vectors, idCounter>>

\* The index service finishes initializing the index
IndexBecomesReady ==
    /\ indexState = "initializing"
    /\ indexState' = "ready"
    /\ UNCHANGED <<chunkVars, retrieveVars, serverVars, crawlVars>>
    /\ UNCHANGED <<ingestEnv, version, flags, docsDir, unreadable, store, run, ipc,
                   files, fileNo, batchStart, vectors, idCounter, log>>

\* A getOrCreateIndex that asks once and gives up on an index not ready
DescribeIndexOnce ==
    /\ ipc = "describeIndex"
    /\ IF indexState = "ready"
       THEN GotIndex
       ELSE /\ ipc' = "exit1"
            /\ UNCHANGED <<fileNo, idCounter>>
    /\ UNCHANGED <<chunkVars, retrieveVars, serverVars, crawlVars>>
    /\ UNCHANGED <<ingestEnv, version, flags, docsDir, unreadable, indexState,
                   store, run, files, batchStart, vectors, log>>

\* part_003 lines 147-154: describeIndex() resolves; the loop goes on until
\* it reports the index ready
DescribeIndex ==
    /\ ipc = "describeIndex"
    /\ IF indexState = "ready"
       THEN GotIndex
       ELSE UNCHANGED <<ipc, fileNo, idCounter>>
    /\ UNCHANGED <<chunkVars, retrieveVars, serverVars, crawlVars>>
    /\ UNCHANGED <<ingestEnv, version, flags, docsDir, unreadable, indexState, store,
                   run, files, batchStart, vectors, log>>

\* part_003 lines 149 and 313-316: describeIndex() rejects, ingest() rejects
\* and the process exits with code 1
DescribeIndexFails ==
    /\ ipc = "describeIndex"
    /\ ipc' = "exit1"
    /\ UNCHANGED <<chunkVars, retrieveVars, serverVars, crawlVars>>
    /\ UNCHANGED <<ingestEnv, version, flags, docsDir, unreadable, indexState, store,
                   run, files, fileNo, batchStart, vectors, idCounter, log>>

\* part_003 lines 299-304: index.delete({deleteAll: true}) resolves
Purge ==
    /\ ipc = "purge"
    /\ store' = {}
    /\ log' = Append(log, Event("purge", "", 0, {}))
    /\ ipc' = "processFile"
    /\ fileNo' = 1
    /\ idCounter' = 1
    /\ UNCHANGED <<chunkVars, retrieveVars, serverVars, crawlVars>>
    /\ UNCHANGED <<ingestEnv, version, flags, docsDir, unreadable, indexState, run,
                   files, batchStart, vectors>>

\* part_003 lines 194-224: what reading a file comes to: "skipped" (PDF
\* under --skip-pdf, unsupported type), "failed" (the read or the PDF
\* conversion throws), "converted" (a PDF turned into a .txt written next to
\* it) or "read"
ReadOutcome(fileName, dir) ==
    IF IsPdf(fileName) /\ "--skip-pdf" \in flags THEN "skipped"
    ELSE IF IsPdf(fileName)
         THEN IF EnsureTxtFromPdf(fileName) \in dir
              THEN IF EnsureTxtFromPdf(fileName) \in unreadable
                   THEN "failed" ELSE "read"
              ELSE IF fileName \in unreadable THEN "failed" ELSE "converted"
    ELSE IF IsTxtOrMd(fileName)
         THEN IF fileName \in unreadable THEN "failed" ELSE "read"
    ELSE "skipped"

\* A processFile that lets the error of reading or parsing reach ingest()
ProcessFileRethrowing ==
    /\ ipc = "processFile"
    /\ \E outcome \in {ReadOutcome(files[fileNo], docsDir)} :
          /\ docsDir' = IF outcome = "converted"
                        THEN docsDir \cup {EnsureTxtFromPdf(files[fileNo])}
                        ELSE docsDir
          /\ IF outcome \in {"read", "converted"}
             THEN BatchLoop(0, Append(log, Event(outcome, files[fileNo], 0, {})))
             ELSE IF outcome = "failed"
             THEN /\ ipc' = "exit1"
                  /\ log' = Append(log, Event(outcome, files[fileNo], 0, {}))
                  /\ UNCHANGED <<fileNo, batchStart>>
             ELSE /\ NextFile
                  /\ log' = Append(log, Event(outcome, files[fileNo], 0, {}))
    /\ UNCHANGED <<chunkVars, retrieveVars, serverVars, crawlVars>>
    /\ UNCHANGED <<ingestEnv, version, flags, unreadable, indexState, store, run, files,
                   vectors, idCounter>>

\* part_003 lines 191-232: processFile reads the file, chunks its text and
\* sends the embedding request of the first batch
ProcessFile ==
    /\ ipc = "processFile"
    /\ \E outcome \in {ReadOutcome(files[fileNo], docsDir)} :
          /\ docsDir' = IF outcome = "converted"
                        THEN docsDir \cup {EnsureTxtFromPdf(files[fileNo])}
                        ELSE docsDir
          /\ IF outcome \in {"read", "converted"}
             THEN BatchLoop(0, Append(log, Event(outcome, files[fileNo], 0, {})))
             ELSE /\ NextFile
                  /\ log' = Append(log, Event(outcome, files[fileNo], 0, {}))
    /\ UNCHANGED <<chunkVars, retrieveVars, serverVars, crawlVars>>
    /\ UNCHANGED <<ingestEnv, version, flags, unreadable, indexState, store, run, files,
                   vectors, idCounter>>

\* The ids of a batch of records
BatchIds(batch) == {batch[j].id : j \in 1..Len(batch)}

\* part_003 lines 232-261: embedTexts() resolves; the records are built and,
\* unless --dry is given, the upsert is sent
EmbedBatch ==
    /\ ipc = "embed"
    /\ \E built \in {BatchVectors(version, files[fileNo], batchStart,
                                  idCounter)} :
          /\ idCounter' = IF version = "ingest.js"
                          THEN idCounter + Len(built) ELSE idCounter
          /\ IF "--dry" \in flags
             THEN /\ BatchLoop(NextBatchStart(batchStart),
                                 Append(log, Event("dryRun", files[fileNo],
                                                   batchStart,
                                                   BatchIds(built))))
                  /\ UNCHANGED vectors
             ELSE /\ vectors' = built
                  /\ ipc' = "upsert"
                  /\ log' = Append(log, Event("upsert", files[fileNo],
                                              batchStart, BatchIds(built)))
                  /\ UNCHANGED <<fileNo, batchStart>>
    /\ UNCHANGED <<chunkVars, retrieveVars, serverVars, crawlVars>>
    /\ UNCHANGED <<ingestEnv, version, flags, docsDir, unreadable, indexState, store,
                   run, files>>

\* part_003 lines 232 and 313-316: embedTexts() rejects, processFile and
\* ingest() reject and the process exits with code 1
EmbedBatchFails ==
    /\ ipc = "embed"
    /\ ipc' = "exit1"
    /\ log' = Append(log, Event("embedFailed", files[fileNo], batchStart, {}))
    /\ UNCHANGED <<chunkVars, retrieveVars, serverVars, crawlVars>>
    /\ UNCHANGED <<ingestEnv, version, flags, docsDir, unreadable, indexState, store,
                   run, files, fileNo, batchStart, vectors, idCounter>>

\* part_003 lines 254-260: index.upsert() resolves and the loop goes on
UpsertBatch ==
    /\ ipc = "upsert"
    /\ store' = Upsert(store, vectors)
    /\ vectors' = <<>>
    /\ BatchLoop(NextBatchStart(batchStart),
                 Append(log, Event("upserted", files[fileNo], batchStart,
                                   BatchIds(vectors))))
    /\ UNCHANGED <<chunkVars, retrieveVars, serverVars, crawlVars>>
    /\ UNCHANGED <<ingestEnv, version, flags, docsDir, unreadable, indexState, run,
                   files, idCounter>>

\* part_003 lines 254 and 313-316: index.upsert() rejects, with the records
\* written or not; the process exits with code 1
UpsertBatchFails ==
    /\ ipc = "upsert"
    /\ store' \in {store, Upsert(store, vectors)}
    /\ ipc' = "exit1"
    /\ log' = Append(log, Event("upsertFailed", files[fileNo], batchStart,
                                BatchIds(vectors)))
    /\ UNCHANGED <<chunkVars, retrieveVars, serverVars, crawlVars>>
    /\ UNCHANGED <<ingestEnv, version, flags, docsDir, unreadable, indexState, run,
                   files, fileNo, batchStart, vectors, idCounter>>

\* ingest() is run again, over the docs/ folder and the index the run before
\* left
Rerun ==
    /\ ipc \in {"complete", "exit0", "exit1"}
    /\ run < MaxRuns
    /\ run' = run + 1
    /\ ipc' = "start"
    /\ files' = <<>>
    /\ fileNo' = 0
    /\ batchStart' = 0
    /\ vectors' = <<>>
    /\ idCounter' = 0
    /\ UNCHANGED <<chunkVars, retrieveVars, serverVars, crawlVars>>
    /\ UNCHANGED <<ingestEnv, version, flags, docsDir, unreadable, indexState, store,
                   log>>

NextIngest ==
    \/ StartRun
    \/ ListIndexes
    \/ DeleteIndex
    \/ CreateIndex
    \/ CreateIndexFails
    \/ IndexBecomesReady
    \/ DescribeIndex
    \/ DescribeIndexFails
    \/ Purge
    \/ ProcessFile
    \/ EmbedBatch
    \/ EmbedBatchFails
    \/ UpsertBatch
    \/ UpsertBatchFails
    \/ Rerun

SpecIngest == InitIngest /\ [][NextIngest]_vars

\* The steps of one run of ingest() in which every call resolves
IngestStep ==
    \/ StartRun
    \/ ListIndexes
    \/ DeleteIndex
    \/ CreateIndex
    \/ DescribeIndex
    \/ Purge
    \/ ProcessFile
    \/ EmbedBatch
    \/ UpsertBatch

NextIngestLive ==
    \/ IngestStep
    \/ IndexBecomesReady

\* One run of ingest() in which every call returns, each await being resumed
\* by the event loop, and the index service finishes initializing an index
\* it was asked to create
SpecIngestLive ==
    /\ InitIngest
    /\ [][NextIngestLive]_vars
    /\ WF_vars(IngestStep)
    /\ WF_vars(IndexBecomesReady)


-----------------------------------------------------------------------------
(* server.js: startup, requireApiKey and the routes /chat, /debug-query and
   /linkedin-search *)

\* server.js lines 16-21: requiredEnvVars; part_007 lines 14-21 tests two
RequiredEnvVars(ver) ==
    IF ver = "server.js"
    THEN {"OPENAI_API_KEY", "CHATBOT_API_KEY", "PINECONE_API_KEY",
          "PINECONE_INDEX_NAME"}
    ELSE {"OPENAI_API_KEY", "CHATBOT_API_KEY"}

\* The variables the server reads that name a credential or the index
ServerEnvVars ==
    {"OPENAI_API_KEY", "CHATBOT_API_KEY", "PINECONE_API_KEY",
     "PINECONE_INDEX_NAME"}

\* The environments the server is started in: complete, or one variable
\* missing
ServerEnvs == {ServerEnvVars} \cup {ServerEnvVars \ {v} : v \in ServerEnvVars}

ServerVersions == {"server.js", "part_007"}

\* The value of process.env.CHATBOT_API_KEY
CHATBOT_API_KEY == "secret"

\* The x-api-key headers sent: none, empty, another key, the key
HeaderKeys == {Unset, <<"">>, <<"wrong">>, <<CHATBOT_API_KEY>>}

\* The routes behind requireApiKey
Routes(ver) ==
    IF ver = "server.js"
    THEN {"/chat", "/debug-query", "/linkedin-search"}
    ELSE {"/chat", "/debug-query"}

\* The values of body.message, query.q and query.name: none (or empty), a
\* question of the aggregation path, another question
Messages == {<<>>, Chars("placement"), Chars("dress code")}

Requests(ver) ==
    [route : Routes(ver), key : HeaderKeys, message : Messages]

\* Line 183 of retrieve: topK = 8
DEFAULT_TOP_K == 8

\* The number of requests the server receives
MaxRequests == 2

\* A key check that lets a request without header through
IsAuthorizedOrKeyless(req) == req.key = Unset \/ req.key = <<CHATBOT_API_KEY>>

\* server.js lines 89-90: !headerKey || headerKey !== CHATBOT_API_KEY fails
IsAuthorized(req) ==
    /\ req.key # Unset
    /\ req.key # <<"">>
    /\ req.key = <<CHATBOT_API_KEY>>

\* The fixed answers of /chat: server.js lines 329-330 and 339-340, part_007
\* line 95
NO_INTERNSHIPS_ANSWER == "I couldn't find specific internship examples"
NOT_FOUND_ANSWER == "I couldn't find that information in my sources"
NOT_FOUND_ANSWER_007 == "I couldn't find that info in my sources"

FixedAnswers ==
    {NO_INTERNSHIPS_ANSWER, NOT_FOUND_ANSWER, NOT_FOUND_ANSWER_007}

\* The page a record was taken from (metadata.url): two records a page
UrlOf(id) == (id + 1) \div 2

\* server.js lines 392-408: the urls of the matches, each once, in order
RECURSIVE Dedupe(_, _)
Dedupe(matches, seen) ==
    IF matches = <<>> THEN <<>>
    ELSE IF UrlOf(Head(matches).id) \in seen
         THEN Dedupe(Tail(matches), seen)
         ELSE <<[url |-> UrlOf(Head(matches).id),
                 score |-> Head(matches).score]>>
                 \o Dedupe(Tail(matches), seen \cup {UrlOf(Head(matches).id)})

\* server.js line 413: unique.slice(0, 3); part_007 lines 128-138 sends them
\* all with DEBUG_RAG
Sources(ver, debug, matches) ==
    IF ver = "part_007" /\ debug THEN Dedupe(matches, {})
    ELSE Slice(Dedupe(matches, {}), 0, 3)

\* server.js line 325: if (belowThreshold && !DEBUG_RAG)
BailsEarly(found, debug) == found.belowThreshold /\ ~debug

\* server.js lines 326-343 and part_007 lines 93-97: the fixed answer
FixedResponse(ver, found) ==
    [status |-> 200,
     answer |-> IF ver = "part_007" THEN NOT_FOUND_ANSWER_007
                ELSE IF found.isAggregation THEN NO_INTERNSHIPS_ANSWER
                ELSE NOT_FOUND_ANSWER,
     sources |-> <<>>]

InitServer ==
    /\ CrawlIdle
    /\ ChunkIdle
    /\ RetrieveIdle
    /\ IngestIdle
    /\ serverVersion \in ServerVersions
    /\ serverEnv \in ServerEnvs
    /\ debugRag \in BOOLEAN
    /\ promptReadable \in BOOLEAN
    /\ spc = "boot"
    /\ request = <<>>
    /\ response = <<>>
    /\ serverCalls = <<>>
    /\ served = 0

\* server.js lines 16-41 and 503: the environment is tested, the system
\* prompt is read and the server listens; the process exits with code 1 when
\* a tested variable is missing or the prompt cannot be read
Boot ==
    /\ spc = "boot"
    /\ spc' = IF RequiredEnvVars(serverVersion) \subseteq serverEnv
                 /\ promptReadable
              THEN "listening" ELSE "exit1"
    /\ UNCHANGED <<chunkVars, retrieveVars, ingestVars, crawlVars>>
    /\ UNCHANGED <<serverVersion, serverEnv, debugRag, promptReadable,
                   request, response, serverCalls, served>>

\* A request for one of the routes behind requireApiKey arrives
Receive ==
    /\ spc = "listening"
    /\ served < MaxRequests
    /\ request' \in Requests(serverVersion)
    /\ served' = served + 1
    /\ spc' = "requireApiKey"
    /\ UNCHANGED <<chunkVars, retrieveVars, ingestVars, crawlVars>>
    /\ UNCHANGED <<serverVersion, serverEnv, debugRag, promptReadable,
                   response, serverCalls>>

\* server.js lines 88-100: requireApiKey
RequireApiKey ==
    /\ spc = "requireApiKey"
    /\ IF IsAuthorized(request)
       THEN /\ spc' = request.route
            /\ UNCHANGED response
       ELSE /\ spc' = "responded"
            /\ response' = <<[status |-> 401, answer |-> "unauthorized",
                              sources |-> <<>>]>>
    /\ UNCHANGED <<chunkVars, retrieveVars, ingestVars, crawlVars>>
    /\ UNCHANGED <<serverVersion, serverEnv, debugRag, promptReadable,
                   request, serverCalls, served>>

\* retrieveRelevantChunks(question) is called: topK takes its default, the
\* namespace and MIN_SIMILARITY are those of the environment
CallRetrieve(question) ==
    /\ userQuestion' = question
    /\ topK' = DEFAULT_TOP_K
    /\ records' \in Namespaces
    /\ minSimilarity' \in MinSimilarityValues
    /\ rpc' = "call"
    /\ isAggregationQuery' = FALSE
    /\ queryNo' = 0
    /\ allMatches' = <<>>
    /\ seenIds' = {}
    /\ asked' = <<>>
    /\ returned' = <<>>
    /\ thrown' = ""

\* server.js lines 130-141 and 450-460: the handlers of /chat and
\* /linkedin-search answer 400 without message or name, and call
\* retrieveRelevantChunks otherwise
StartRetrieval ==
    /\ spc \in {"/chat", "/linkedin-search"}
    /\ IF request.message = <<>>
       THEN /\ spc' = "responded"
            /\ response' = <<[status |-> 400, answer |-> "No message provided.",
                              sources |-> <<>>]>>
            /\ UNCHANGED retrieveVars
       ELSE /\ spc' = "retrieving"
            /\ CallRetrieve(IF spc = "/chat" THEN request.message
                            ELSE Chars("LinkedIn profile ") \o request.message)
            /\ UNCHANGED response
    /\ UNCHANGED <<chunkVars, ingestVars, crawlVars>>
    /\ UNCHANGED <<serverVersion, serverEnv, debugRag, promptReadable,
                   request, serverCalls, served>>

\* server.js lines 144-353: retrieveRelevantChunks resolved for /chat; the
\* fixed answer is sent, or the answer is asked of the generation model
ChatRetrieved ==
    /\ spc = "retrieving"
    /\ request.route = "/chat"
    /\ rpc = "done"
    /\ IF BailsEarly(returned[1], debugRag)
       THEN /\ spc' = "responded"
            /\ response' = <<FixedResponse(serverVersion, returned[1])>>
            /\ UNCHANGED serverCalls
       ELSE /\ spc' = "generate"
            /\ serverCalls' = Append(serverCalls, "chat.completions.create")
            /\ UNCHANGED response
    /\ UNCHANGED <<chunkVars, retrieveVars, ingestVars, crawlVars>>
    /\ UNCHANGED <<serverVersion, serverEnv, debugRag, promptReadable,
                   request, served>>

\* server.js lines 356-438: the generation model answers and the answer is
\* sent with the sources
Generate ==
    /\ spc = "generate"
    /\ spc' = "responded"
    /\ response' = <<[status |-> 200, answer |-> "generated",
                      sources |-> Sources(serverVersion, debugRag,
                                          returned[1].matches)]>>
    /\ UNCHANGED <<chunkVars, retrieveVars, ingestVars, crawlVars>>
    /\ UNCHANGED <<serverVersion, serverEnv, debugRag, promptReadable,
                   request, serverCalls, served>>

\* server.js lines 356 and 439-447: the generation call rejects
GenerateFails ==
    /\ spc = "generate"
    /\ spc' = "responded"
    /\ response' = <<[status |-> 500, answer |-> "Chat request failed",
                      sources |-> <<>>]>>
    /\ UNCHANGED <<chunkVars, retrieveVars, ingestVars, crawlVars>>
    /\ UNCHANGED <<serverVersion, serverEnv, debugRag, promptReadable,
                   request, serverCalls, served>>

\* server.js lines 463-484: retrieveRelevantChunks resolved for
\* /linkedin-search and the profiles are sent
LinkedinRetrieved ==
    /\ spc = "retrieving"
    /\ request.route = "/linkedin-search"
    /\ rpc = "done"
    /\ spc' = "responded"
    /\ response' = <<[status |-> 200, answer |-> "profiles",
                      sources |-> <<>>]>>
    /\ UNCHANGED <<chunkVars, retrieveVars, ingestVars, crawlVars>>
    /\ UNCHANGED <<serverVersion, serverEnv, debugRag, promptReadable,
                   request, serverCalls, served>>

\* A handler that answers a failed retrieval like one that found nothing
RetrieveThrewAnsweredNotFound ==
    /\ spc = "retrieving"
    /\ rpc = "threw"
    /\ spc' = "responded"
    /\ response' = <<[status |-> 200, answer |-> NOT_FOUND_ANSWER,
                      sources |-> <<>>]>>
    /\ UNCHANGED <<chunkVars, retrieveVars, ingestVars, crawlVars>>
    /\ UNCHANGED <<serverVersion, serverEnv, debugRag, promptReadable,
                   request, serverCalls, served>>

\* server.js lines 439-447 and 485-492: retrieveRelevantChunks rejected and
\* the catch of the handler answers 500
RetrieveThrew ==
    /\ spc = "retrieving"
    /\ rpc = "threw"
    /\ spc' = "responded"
    /\ response' = <<[status |-> 500,
                      answer |-> IF request.route = "/chat"
                                 THEN "Chat request failed"
                                 ELSE "LinkedIn search failed",
                      sources |-> <<>>]>>
    /\ UNCHANGED <<chunkVars, retrieveVars, ingestVars, crawlVars>>
    /\ UNCHANGED <<serverVersion, serverEnv, debugRag, promptReadable,
                   request, serverCalls, served>>

\* server.js lines 103-113 and part_006 lines 8-29: debugQuery embeds the
\* query, asks the index and the matches are sent
DebugQuery ==
    /\ spc = "/debug-query"
    /\ {"PINECONE_API_KEY", "PINECONE_INDEX_NAME"} \subseteq serverEnv
    /\ spc' = "responded"
    /\ serverCalls' = serverCalls \o <<"embeddings.create", "ns.query">>
    /\ response' = <<[status |-> 200, answer |-> "matches",
                      sources |-> <<>>]>>
    /\ UNCHANGED <<chunkVars, retrieveVars, ingestVars, crawlVars>>
    /\ UNCHANGED <<serverVersion, serverEnv, debugRag, promptReadable,
                   request, served>>

\* server.js lines 114-121: a call of debugQuery rejects; the embedding call
\* was made, and the query too unless getPineconeIndex or the embedding
\* rejected
DebugQueryFails ==
    /\ spc = "/debug-query"
    /\ spc' = "responded"
    /\ \E made \in {<<"embeddings.create">>,
                    <<"embeddings.create", "ns.query">>} :
          /\ (Len(made) = 2 =>
                 {"PINECONE_API_KEY", "PINECONE_INDEX_NAME"}
                     \subseteq serverEnv)
          /\ serverCalls' = serverCalls \o made
    /\ response' = <<[status |-> 500, answer |-> "Debug query failed",
                      sources |-> <<>>]>>
    /\ UNCHANGED <<chunkVars, retrieveVars, ingestVars, crawlVars>>
    /\ UNCHANGED <<serverVersion, serverEnv, debugRag, promptReadable,
                   request, served>>

\* The handler has ended and the server waits for the next request
HandlerEnds ==
    /\ spc = "responded"
    /\ spc' = "listening"
    /\ request' = <<>>
    /\ response' = <<>>
    /\ serverCalls' = <<>>
    /\ userQuestion' = <<>>
    /\ topK' = 0
    /\ minSimilarity' = <<>>
    /\ records' = {}
    /\ rpc' = "idle"
    /\ isAggregationQuery' = FALSE
    /\ queryNo' = 0
    /\ allMatches' = <<>>
    /\ seenIds' = {}
    /\ asked' = <<>>
    /\ returned' = <<>>
    /\ thrown' = ""
    /\ UNCHANGED <<chunkVars, ingestVars, crawlVars>>
    /\ UNCHANGED <<serverVersion, serverEnv, debugRag, promptReadable,
                   served>>

NextServer ==
    \/ Boot
    \/ Receive
    \/ RequireApiKey
    \/ StartRetrieval
    \/ Classify
    \/ GetIndex
    \/ GetIndexFails
    \/ Embed
    \/ EmbedFails
    \/ QueryFanout
    \/ QuerySingle
    \/ QueryFails
    \/ ChatRetrieved
    \/ Generate
    \/ GenerateFails
    \/ LinkedinRetrieved
    \/ RetrieveThrew
    \/ DebugQuery
    \/ DebugQueryFails
    \/ HandlerEnds

SpecServer == InitServer /\ [][NextServer]_vars

-----------------------------------------------------------------------------
(* crawlBFS.js: the breadth-first crawl that writes pages to docs/web *)

\* crawlBFS.js line 14: the default of process.argv[3], const DOMAIN
DOMAIN_HOST == "www.caes.uga.edu"

\* crawlBFS.js line 15: the default of process.argv[4]
PATH_PREFIX == "/students/"

\* The largest values given for MAX_PAGES and MAX_DEPTH
MaxPagesArg == 4
MaxDepthArg == 3

\* The 0-based position of the first character of t at or after k that is
\* in the set, or the length of t
FirstOf(t, k, set) ==
    LET at == {i \in k..(Len(t) - 1) : t[i + 1] \in set}
    IN  IF at = {} THEN Len(t) ELSE MinOf(at)

\* crawlBFS.js line 74: new URL(href), of which hostname and pathname are
\* read; href is absolute, as fetchAndParse resolved it
ParseUrl(href) ==
    LET t == Chars(href)
        scheme == Chars("https://")
    IN  IF StartsWith(t, scheme)
        THEN LET hostEnd == FirstOf(t, Len(scheme), {"/", "?", "#"})
                 pathEnd == FirstOf(t, hostEnd, {"?", "#"})
             IN  [hostname |-> ToLowerCase(Slice(t, Len(scheme), hostEnd)),
                  pathname |-> IF pathEnd = hostEnd THEN <<"/">>
                               ELSE Slice(t, hostEnd, pathEnd)]
        ELSE [hostname |-> <<>>,
              pathname |-> Slice(t, FirstOf(t, 0, {":"}) + 1, Len(t))]

\* A filter that tests the host only
FilterLinksHostOnly(links) ==
    SelectSeq(links, LAMBDA href :
        ParseUrl(href).hostname = Chars(DOMAIN_HOST))

\* crawlBFS.js lines 71-80
FilterLinks(links) ==
    SelectSeq(links, LAMBDA href :
        /\ ParseUrl(href).hostname = Chars(DOMAIN_HOST)
        /\ StartsWith(ParseUrl(href).pathname, Chars(PATH_PREFIX)))

\* The pages of the web crawled and the links of each, in document order,
\* as fetchAndParse resolves them (lines 46-57)
Web ==
    [url \in {"https://www.admissions.uga.edu/experience/",
              "https://www.caes.uga.edu/students/",
              "https://www.caes.uga.edu/students/#top",
              "https://www.caes.uga.edu/students/a",
              "https://www.caes.uga.edu/students/b",
              "https://www.caes.uga.edu/students/c",
              "https://www.caes.uga.edu/students/d"} |->
        CASE url = "https://www.admissions.uga.edu/experience/" ->
                <<"https://www.admissions.uga.edu/experience/",
                  "https://www.admissions.uga.edu/experience/visit",
                  "https://www.caes.uga.edu/students/">>
          [] url \in {"https://www.caes.uga.edu/students/",
                      "https://www.caes.uga.edu/students/#top"} ->
                <<"https://www.caes.uga.edu/students/a",
                  "https://www.caes.uga.edu/about/",
                  "https://www.caes.uga.edu/students",
                  "https://www.caes.uga.edu.example.com/students/",
                  "https://www.uga.edu/students/",
                  "mailto:students@uga.edu",
                  "https://www.caes.uga.edu/students/b",
                  "https://www.caes.uga.edu/students/a",
                  "https://www.caes.uga.edu/students/#top">>
          [] url = "https://www.caes.uga.edu/students/a" ->
                <<"https://www.caes.uga.edu/students/b",
                  "https://www.caes.uga.edu/students/c",
                  "https://www.caes.uga.edu/students/">>
          [] url = "https://www.caes.uga.edu/students/b" ->
                <<"https://www.caes.uga.edu/students/c",
                  "https://www.caes.uga.edu/students/a">>
          [] url = "https://www.caes.uga.edu/students/c" ->
                <<"https://www.caes.uga.edu/students/d">>
          [] OTHER ->
                <<"https://www.caes.uga.edu/students/",
                  "https://www.caes.uga.edu/about/">>]

\* The seeds given as process.argv[2]: the default of line 12, and the
\* first page of the site crawled
START_URLS ==
    {"https://www.admissions.uga.edu/experience/",
     "https://www.caes.uga.edu/students/"}

InitCrawl ==
    /\ ChunkIdle
    /\ RetrieveIdle
    /\ IngestIdle
    /\ ServerIdle
    /\ START_URL \in START_URLS
    /\ MAX_PAGES \in 0..MaxPagesArg
    /\ MAX_DEPTH \in 0..MaxDepthArg
    /\ cpc = "start"
    /\ queue = <<>>
    /\ visited = {}
    /\ count = 0
    /\ fetched = <<>>
    /\ enqueued = {}

\* crawlBFS.js lines 93-95
StartCrawl ==
    /\ cpc = "start"
    /\ queue' = <<[url |-> START_URL, depth |-> 0]>>
    /\ visited' = {}
    /\ count' = 0
    /\ cpc' = "loop"
    /\ UNCHANGED <<chunkVars, retrieveVars, ingestVars, serverVars>>
    /\ UNCHANGED <<START_URL, MAX_PAGES, MAX_DEPTH, fetched, enqueued>>

\* crawlBFS.js line 97: the condition of the while loop
LoopGoesOn == queue # <<>> /\ count < MAX_PAGES

\* crawlBFS.js lines 98-99: the entry shifted off the queue was visited
SkipVisited ==
    /\ cpc = "loop"
    /\ LoopGoesOn
    /\ Head(queue).url \in visited
    /\ queue' = Tail(queue)
    /\ UNCHANGED <<chunkVars, retrieveVars, ingestVars, serverVars>>
    /\ UNCHANGED <<START_URL, MAX_PAGES, MAX_DEPTH, cpc, visited, count,
                   fetched, enqueued>>

\* crawlBFS.js lines 109-116: the entries pushed for the links of a page
\* fetched at the depth given
Pushed(url, depth) ==
    IF depth < MAX_DEPTH
    THEN LET filtered == FilterLinks(Web[url])
             fresh == SelectSeq(filtered, LAMBDA nextUrl :
                          nextUrl \notin visited \cup {url})
         IN  [k \in 1..Len(fresh) |-> [url |-> fresh[k], depth |-> depth + 1]]
    ELSE <<>>

\* The record of a call of fetchAndParse
Fetch(entry, ok) ==
    [url |-> entry.url, depth |-> entry.depth, ok |-> ok,
     countBefore |-> count, queueBefore |-> Len(queue)]

\* crawlBFS.js lines 98-122: the page, one the web holds, is fetched and
\* saved and its links are pushed
CrawlPage ==
    /\ cpc = "loop"
    /\ LoopGoesOn
    /\ Head(queue).url \notin visited
    /\ Head(queue).url \in DOMAIN Web
    /\ visited' = visited \cup {Head(queue).url}
    /\ count' = count + 1
    /\ \E pushed \in {Pushed(Head(queue).url, Head(queue).depth)} :
          /\ queue' = Tail(queue) \o pushed
          /\ enqueued' = enqueued \cup {pushed[k] : k \in 1..Len(pushed)}
    /\ fetched' = Append(fetched, Fetch(Head(queue), TRUE))
    /\ UNCHANGED <<chunkVars, retrieveVars, ingestVars, serverVars>>
    /\ UNCHANGED <<START_URL, MAX_PAGES, MAX_DEPTH, cpc>>

\* crawlBFS.js lines 98-105 and 118-120: fetchAndParse or saveMarkdown
\* throws; the error is logged and the loop goes on
CrawlPageFails ==
    /\ cpc = "loop"
    /\ LoopGoesOn
    /\ Head(queue).url \notin visited
    /\ visited' = visited \cup {Head(queue).url}
    /\ queue' = Tail(queue)
    /\ fetched' = Append(fetched, Fetch(Head(queue), FALSE))
    /\ UNCHANGED <<chunkVars, retrieveVars, ingestVars, serverVars>>
    /\ UNCHANGED <<START_URL, MAX_PAGES, MAX_DEPTH, cpc, count, enqueued>>

\* crawlBFS.js lines 97 and 125-126: the loop ends, "Crawl done."
CrawlDone ==
    /\ cpc = "loop"
    /\ ~LoopGoesOn
    /\ cpc' = "done"
    /\ UNCHANGED <<chunkVars, retrieveVars, ingestVars, serverVars>>
    /\ UNCHANGED <<START_URL, MAX_PAGES, MAX_DEPTH, queue, visited, count,
                   fetched, enqueued>>

NextCrawl ==
    \/ StartCrawl
    \/ SkipVisited
    \/ CrawlPage
    \/ CrawlPageFails
    \/ CrawlDone

SpecCrawl == InitCrawl /\ [][NextCrawl]_vars

-----------------------------------------------------------------------------
(* Properties of retrieveRelevantChunks *)

Returned == rpc = "done"

\* p occurs in t
ContainsText(t, p) ==
    \E i \in 1..(Len(t) - Len(p) + 1) : SubSeq(t, i, i + Len(p) - 1) = p

\* The lower-cased question holds a breadth keyword and a domain keyword
BreadthAndDomain(q) ==
    LET lower == ToLowerCase(q)
    IN  /\ \E keyword \in aggregationKeywords : ContainsText(lower, keyword)
        /\ \/ ContainsText(lower, Chars("internship"))
           \/ ContainsText(lower, Chars("placement"))

\* The call went down the aggregation path: it sent the whole fan-out
AggregationPath == Len(asked) = NumSearchQueries

\* C9: retrieveRelevantChunks classifies a question as an aggregation query
\* exactly when its lower-cased text holds one of the breadth keywords and
\* "internship" or "placement"; the classification is a function of the
\* question alone, it decides the path taken, and the isAggregation flag
\* returned equals it.
C9_AggregationIffBreadthAndDomain ==
    /\ rpc # "call" => isAggregationQuery = BreadthAndDomain(userQuestion)
    /\ Returned =>
          /\ returned[1].isAggregation = BreadthAndDomain(userQuestion)
          /\ AggregationPath = BreadthAndDomain(userQuestion)
          /\ ~AggregationPath => Len(asked) = 1

\* A question that is an aggregation query only once lower-cased has
\* returned with isAggregation set
C9_Witness ==
    /\ Returned
    /\ returned[1].isAggregation
    /\ userQuestion # ToLowerCase(userQuestion)
    /\ ~ContainsText(userQuestion, Chars("internship"))

\* The configured threshold, 0.75 when none is configured
ConfiguredThreshold ==
    IF minSimilarity = <<>> THEN 750 ELSE minSimilarity[1]

\* C10: in every result returned, topScore is the score of the first match,
\* or 0 without matches, and belowThreshold is true exactly when there are no
\* matches or topScore < T, T being the configured threshold (0.75 by
\* default) on the single-query path and 0.7 times it on the aggregation
\* path.
C10_TopScoreAndBelowThreshold ==
    Returned =>
        LET r == returned[1]
            none == Len(r.matches) = 0
        IN  /\ r.topScore = IF none THEN 0 ELSE r.matches[1].score
            /\ r.belowThreshold =
                  \/ none
                  \/ IF AggregationPath
                     THEN 10 * r.topScore < 7 * ConfiguredThreshold
                     ELSE r.topScore < ConfiguredThreshold

\* An aggregation result whose top score is under the configured threshold
\* and passes only by the relaxed one
C10_Witness ==
    /\ Returned
    /\ AggregationPath
    /\ Len(returned[1].matches) > 0
    /\ returned[1].topScore < ConfiguredThreshold
    /\ ~returned[1].belowThreshold

\* The answer of the index to the n-th query sent
Answer(n) == asked[n].matches

\* The ids of a sequence of matches
IdsOf(matches) == {matches[i].id : i \in 1..Len(matches)}

\* The first query, in issue order, whose answer holds id
FirstAnswering(id) ==
    MinOf({n \in 1..Len(asked) : id \in IdsOf(Answer(n))})

\* The score the n-th answer gives id
ScoreIn(n, id) ==
    LET ans == Answer(n)
    IN  ans[CHOOSE i \in 1..Len(ans) : ans[i].id = id].score

\* C11: on the aggregation path no two returned matches have the same id, and
\* the entry returned for an id (its score too) is the one of the first
\* fan-out query, in issue order, whose answer held that id.
C11_UniqueIdsFirstOccurrenceWins ==
    (Returned /\ AggregationPath) =>
        LET ms == returned[1].matches
        IN  /\ \A i, j \in 1..Len(ms) : ms[i].id = ms[j].id => i = j
            /\ \A i \in 1..Len(ms) :
                  /\ \E n \in 1..Len(asked) : ms[i].id \in IdsOf(Answer(n))
                  /\ ms[i].score = ScoreIn(FirstAnswering(ms[i].id), ms[i].id)

\* A returned match whose id a later fan-out query answered with another
\* score
C11_Witness ==
    /\ Returned
    /\ AggregationPath
    /\ \E i \in 1..Len(returned[1].matches) :
          \E n \in 1..Len(asked) :
              LET id == returned[1].matches[i].id
              IN  /\ id \in IdsOf(Answer(n))
                  /\ n > FirstAnswering(id)
                  /\ ScoreIn(n, id) # returned[1].matches[i].score

\* The merged deduplicated set: for every id some fan-out answer held, the
\* entry of the first answer holding it
Merged ==
    LET ids == UNION {IdsOf(Answer(n)) : n \in 1..Len(asked)}
    IN  {[id |-> id, score |-> ScoreIn(FirstAnswering(id), id)] : id \in ids}

\* The elements of a sequence, as a set
Range(seq) == {seq[i] : i \in 1..Len(seq)}

\* C12: on the aggregation path the returned matches are ordered by
\* non-increasing score, are min(3 x topK, size of the merged deduplicated
\* set) many, all come from that set and score at least as high as every
\* entry of it left out; topScore is the maximum score of the set (0 when it
\* is empty).
C12_SortedTruncatedTopOfMerged ==
    (Returned /\ AggregationPath) =>
        LET ms == returned[1].matches
        IN  /\ \A i, j \in 1..Len(ms) : i < j => ms[i].score >= ms[j].score
            /\ Len(ms) <= 3 * topK
            /\ Len(ms) = Min(3 * topK, Cardinality(Merged))
            /\ Range(ms) \subseteq Merged
            /\ \A out \in Merged \ Range(ms) :
                  \A i \in 1..Len(ms) : ms[i].score >= out.score
            /\ returned[1].topScore =
                  IF Merged = {} THEN 0
                  ELSE MaxOf({e.score : e \in Merged})

\* A merged set larger than 3 x topK, cut to its best 3 x topK entries, the
\* best of which the fan-out pushed after a lower-scoring one
C12_Witness ==
    /\ Returned
    /\ AggregationPath
    /\ Cardinality(Merged) > 3 * topK
    /\ Len(returned[1].matches) = 3 * topK
    /\ returned[1].matches[1].id \notin IdsOf(Answer(1))

\* The matches a single embed-and-query call with the same question and topK
\* gets from the same index: the vector of the question is the one of the
\* first fan-out query
NaiveMatches == QueryIndex(asked[1].kind, records, topK)

\* C13: for a question classified as aggregation and any topK, the call
\* returns at least as many matches as a single embed-and-query call with the
\* same question and topK gets from the same index.
C13_AtLeastAsManyAsSingleQuery ==
    (Returned /\ AggregationPath) =>
        Len(returned[1].matches) >= Len(NaiveMatches)

\* C14: for a question classified as aggregation, every id the single-query
\* path would return for the question with the same topK is among the ids
\* returned; stated for the values of topK the fan-out cap does not reach.
C14_HoldsEverySingleQueryMatch ==
    (Returned /\ AggregationPath /\ 2 * topK <= FANOUT_CAP) =>
        IdsOf(NaiveMatches) \subseteq IdsOf(returned[1].matches)

-----------------------------------------------------------------------------
(* Properties of ingest() *)

\* The entries of the history of calls of one run, one file and one kind
EventsOf(r, fileName, op) ==
    {j \in 1..Len(log) : /\ log[j].run = r
                          /\ log[j].file = fileName
                          /\ log[j].op = op}

\* The ids of the records a run has upserted for a file
IdsUpserted(r, fileName) ==
    UNION {log[j].ids : j \in EventsOf(r, fileName, "upserted")}

\* The first chunk indices of the batches of a file
BatchStarts(fileName) ==
    {i \in 0..(ChunkCount(fileName) - 1) : i % BATCH_SIZE = 0}

\* A run has upserted every batch of a file
WhollyUpserted(r, fileName) ==
    /\ ChunkCount(fileName) > 0
    /\ {log[j].start : j \in EventsOf(r, fileName, "upserted")}
          = BatchStarts(fileName)

\* C15: two runs of ingestion that both upsert the whole of the same
\* unchanged document upsert the same set of record ids for it, so that the
\* second run overwrites the records of the first.
C15_SameIdsOnReingestion ==
    \A fileName \in docsDir :
        \A r1, r2 \in 1..MaxRuns :
            (/\ r1 < r2
             /\ WhollyUpserted(r1, fileName)
             /\ WhollyUpserted(r2, fileName))
                => IdsUpserted(r1, fileName) = IdsUpserted(r2, fileName)

\* The last entry of the history of calls says that the last batch of a
\* file was upserted by the processFile of part_003
LastBatchUpserted(fileName) ==
    /\ version = "part_003"
    /\ log # <<>>
    /\ log[Len(log)].op = "upserted"
    /\ log[Len(log)].file = fileName
    /\ log[Len(log)].start + BATCH_SIZE >= ChunkCount(fileName)

\* The record is the one of chunk k of n of the file
IsRecordOfChunk(r, fileName, k, n) ==
    /\ r.id = <<"sha1", fileName, k>>
    /\ r.metadata.chunkIndex = k
    /\ r.metadata.totalChunks = n
    /\ r.metadata.text = ChunksOf(fileName)[k + 1]
    /\ r.values = EmbedTexts(<<ChunksOf(fileName)[k + 1]>>)[1]

\* C16: for a document of n chunks the processFile of part_003 upserts one
\* record for each index k in 0..n-1, once: every batch sent holds, in text
\* order, the records of its chunks, each with the id of (file name, k), the
\* text and the vector of chunk k and totalChunks = n; when the last batch is
\* upserted the namespace holds exactly these n records for the file.
C16_OneRecordPerChunkIndex ==
    /\ (version = "part_003" /\ ipc = "upsert") =>
          LET fileName == files[fileNo]
              n == ChunkCount(fileName)
          IN  /\ Len(vectors) = Min(BATCH_SIZE, n - batchStart)
              /\ \A j \in 1..Len(vectors) :
                    IsRecordOfChunk(vectors[j], fileName,
                                    batchStart + j - 1, n)
    /\ \A fileName \in docsDir :
          LastBatchUpserted(fileName) =>
              LET n == ChunkCount(fileName)
                  ofFile == {r \in store : r.metadata.source = fileName}
              IN  /\ \A k \in 0..(n - 1) :
                        /\ \E r \in ofFile :
                              IsRecordOfChunk(r, fileName, k, n)
                        /\ Cardinality({r \in store :
                               r.id = MakeChunkId(fileName, k)}) = 1
                  /\ \A k \in 0..(n - 1) :
                        Cardinality({j \in EventsOf(log[Len(log)].run, fileName,
                                                    "upsert") :
                            <<"sha1", fileName, k>> \in log[j].ids}) = 1

\* The third and last batch of a document of 21 chunks was upserted
C16_Witness ==
    /\ LastBatchUpserted("b.md")
    /\ log[Len(log)].start = 2 * BATCH_SIZE
    /\ \E r \in store : /\ r.metadata.source = "b.md"
                        /\ r.metadata.chunkIndex = 2 * BATCH_SIZE
                        /\ r.metadata.totalChunks = 2 * BATCH_SIZE + 1

\* The entries that end the batch of entry j: its upsert resolved, its
\* records built on a --dry run, or one of its two calls rejected
Ended(j) ==
    {h \in (j + 1)..Len(log) :
        /\ log[h].run = log[j].run
        /\ log[h].file = log[j].file
        /\ log[h].start = log[j].start
        /\ log[h].op \in {"upserted", "dryRun", "embedFailed", "upsertFailed"}}

\* The batches whose embedding request was sent and that have not ended
InFlight == {j \in 1..Len(log) : log[j].op = "embed" /\ Ended(j) = {}}

\* The embedding requests of run r for the chunks of fileName
Batches(r, fileName) == EventsOf(r, fileName, "embed")

\* The batch loop of fileName has ended in run r: its last batch was
\* upserted or, on a --dry run, built
LoopEnded(r, fileName) ==
    \E h \in 1..Len(log) :
        /\ log[h].run = r
        /\ log[h].file = fileName
        /\ log[h].op \in {"upserted", "dryRun"}
        /\ log[h].start + BATCH_SIZE >= ChunkCount(fileName)

\* C17: within one document the embedding request of a batch is sent only
\* after the upsert of the batch before it has resolved (after its records
\* were built, on a --dry run); at every moment at most one batch, of at most
\* 10 chunks, is in flight; no chunk is in two batches, and every chunk of a
\* document whose loop has ended is in exactly one.
C17_OneBatchInFlightAtATime ==
    /\ \A j \in 1..Len(log) :
          (log[j].op = "embed" /\ log[j].start > 0) =>
              \E h \in 1..(j - 1) :
                  /\ log[h].run = log[j].run
                  /\ log[h].file = log[j].file
                  /\ log[h].start = log[j].start - BATCH_SIZE
                  /\ log[h].op = IF "--dry" \in flags THEN "dryRun"
                                 ELSE "upserted"
    /\ Cardinality(InFlight) <= 1
    /\ \A j \in 1..Len(log) :
          log[j].op = "embed" =>
              /\ log[j].parts # {}
              /\ Cardinality(log[j].parts) <= 10
    /\ Len(vectors) <= 10
    /\ \A r \in 1..MaxRuns : \A fileName \in docsDir \cup {"a.txt"} :
          \A k \in 0..(ChunkCount(fileName) - 1) :
              LET holding == {j \in Batches(r, fileName) : k \in log[j].parts}
              IN  /\ Cardinality(holding) <= 1
                  /\ LoopEnded(r, fileName) => Cardinality(holding) = 1

\* A document of three batches has been upserted to the end, the last batch
\* holding one chunk
C17_Witness ==
    /\ LoopEnded(1, "b.md")
    /\ Cardinality(Batches(1, "b.md")) = 3
    /\ \E j \in Batches(1, "b.md") : log[j].parts = {20}
    /\ InFlight = {}

\* The entries at which the embedding or the upsert call of a batch rejected
BatchFailures ==
    {j \in 1..Len(log) : log[j].op \in {"embedFailed", "upsertFailed"}}

\* The ids processFile builds for a file when no call fails
UninterruptedIds(fileName) ==
    UNION {BatchIds(BatchVectors("part_003", fileName, i, 0)) :
              i \in BatchStarts(fileName)}

\* C18: when the embedding or the upsert call of the batch starting at chunk
\* k of a document rejects in the ingestion of part_003, the run sends no
\* later embedding request or upsert for that document; while that rejection
\* is the last call made, the namespace holds for each chunk before k that
\* the run upserted (all of them, unless --dry is given) exactly the record
\* its batch upserted; and a later run that upserts the whole
\* document upserts the ids of a run in which nothing failed, those of the
\* failed run among them.
C18_FailedBatchEndsDocumentAndKeepsEarlierBatches ==
    version = "part_003" =>
        /\ \A j \in BatchFailures : \A h \in (j + 1)..Len(log) :
              ~ /\ log[h].run = log[j].run
                /\ log[h].file = log[j].file
                /\ log[h].op \in {"embed", "upsert", "upserted", "dryRun"}
        /\ (log # <<>> /\ Len(log) \in BatchFailures) =>
              LET failed == log[Len(log)]
                  n == ChunkCount(failed.file)
              IN  /\ "--dry" \notin flags =>
                         IdsUpserted(failed.run, failed.file)
                            = {MakeChunkId(failed.file, k) :
                                  k \in 0..(failed.start - 1)}
                  /\ \A k \in 0..(failed.start - 1) :
                         MakeChunkId(failed.file, k)
                               \in IdsUpserted(failed.run, failed.file) =>
                            /\ \E r \in store :
                                  IsRecordOfChunk(r, failed.file, k, n)
                            /\ Cardinality({r \in store :
                                   r.id = MakeChunkId(failed.file, k)}) = 1
        /\ \A j \in BatchFailures : \A r2 \in 1..MaxRuns :
              (log[j].run < r2 /\ WhollyUpserted(r2, log[j].file)) =>
                  /\ IdsUpserted(r2, log[j].file)
                        = UninterruptedIds(log[j].file)
                  /\ IdsUpserted(log[j].run, log[j].file)
                        \subseteq IdsUpserted(r2, log[j].file)

\* The upsert of the last batch of a document of three batches rejected in
\* the first run, and the second run has upserted the whole document
C18_Witness ==
    /\ version = "part_003"
    /\ \E j \in BatchFailures :
          /\ log[j].op = "upsertFailed"
          /\ log[j].run = 1
          /\ log[j].file = "b.md"
          /\ log[j].start = 20
    /\ WhollyUpserted(2, "b.md")

\* The entries at which reading or parsing a document failed
ReadFailures == {j \in 1..Len(log) : log[j].op = "failed"}

\* The position of a file in the listing of the run
PositionOf(fileName) ==
    CHOOSE n \in 1..Len(files) : files[n] = fileName

\* The run has dealt with the file: it was skipped, its reading failed, or
\* it was read and each of its batches was upserted (built, with --dry)
DealtWith(r, fileName) ==
    \/ EventsOf(r, fileName, "skipped") # {}
    \/ EventsOf(r, fileName, "failed") # {}
    \/ /\ EventsOf(r, fileName, "read") \cup EventsOf(r, fileName, "converted")
             # {}
       /\ {log[j].start :
              j \in EventsOf(r, fileName,
                             IF "--dry" \in flags THEN "dryRun"
                             ELSE "upserted")} = BatchStarts(fileName)

\* C19: when reading or parsing a document fails, the run makes no
\* embedding or upsert call for it; processFile goes on with the next
\* document of the listing, or the run completes when it was the last; the
\* run does not exit with code 1 on it; and a completed run has dealt with
\* every document of its listing, upserting the whole of each one it read.
C19_ReadFailureSkipsOnlyThatDocument ==
    /\ \A j \in ReadFailures : \A h \in 1..Len(log) :
          ~ /\ log[h].run = log[j].run
            /\ log[h].file = log[j].file
            /\ log[h].op \in {"embed", "upsert", "upserted", "dryRun"}
    /\ \A fileName \in unreadable : \A h \in 1..Len(log) :
          (IsTxtOrMd(fileName) /\ log[h].file = fileName) =>
              log[h].op = "failed"
    /\ (log # <<>> /\ Len(log) \in ReadFailures
             /\ log[Len(log)].run = run /\ ipc # "start") =>
          LET n == PositionOf(log[Len(log)].file)
          IN  IF n < Len(files)
              THEN ipc = "processFile" /\ fileNo = n + 1
              ELSE ipc = "complete"
    /\ ipc = "complete" =>
          \A n \in 1..Len(files) : DealtWith(run, files[n])

\* A run has completed in which the reading of the first document failed and
\* the whole of a later one was upserted
C19_Witness ==
    /\ ipc = "complete"
    /\ \E j \in ReadFailures :
          /\ log[j].run = run
          /\ log[j].file = files[1]
    /\ WhollyUpserted(run, "d.txt")
    /\ PositionOf("d.txt") > 1

\* The entries of one kind of call of run r
CallsOf(r, op) == {j \in 1..Len(log) : log[j].run = r /\ log[j].op = op}

\* listIndexes() of run r did not hold the configured index
IndexWasAbsent(r) ==
    \E j \in CallsOf(r, "listIndexes") : log[j].ids = {"absent"}

\* listIndexes() of run r held the configured index
IndexExisted(r) ==
    \E j \in CallsOf(r, "listIndexes") : log[j].ids # {"absent"}

\* Every upsert was sent to an index that was ready
UpsertsOnlyWhenReady ==
    \A j \in 1..Len(log) : log[j].op = "upsert" => log[j].ready

\* A run that did not find the index creates it once, with dimension 3072
\* and the cosine metric, and sends its upserts after the index is ready
CreatedOnceAndPolled ==
    \A r \in 1..MaxRuns :
        IndexWasAbsent(r) =>
            /\ Cardinality(CallsOf(r, "createIndex")) <= 1
            /\ CallsOf(r, "deleteIndex") = {}
            /\ \A j \in CallsOf(r, "createIndex") :
                  log[j].start = 3072 /\ log[j].ids = {"cosine"}
            /\ \A j \in CallsOf(r, "upsert") :
                  /\ log[j].ready
                  /\ \E h \in CallsOf(r, "createIndex") : h < j

\* A run that found the index and was not given --recreate-index neither
\* creates nor deletes an index
ExistingUsedAsIs ==
    \A r \in 1..MaxRuns :
        (IndexExisted(r) /\ "--recreate-index" \notin flags) =>
            /\ CallsOf(r, "createIndex") = {}
            /\ CallsOf(r, "deleteIndex") = {}

\* C20: ingestion sends no upsert to an index that is not ready; a run that
\* does not find the configured index creates it once, with dimension 3072
\* and the cosine metric, and polls describeIndex until it reports ready
\* before any upsert; a run that finds it, without --recreate-index, uses it
\* with no create or delete call.
C20_NoUpsertToIndexNotReady ==
    /\ CreatedOnceAndPolled
    /\ ExistingUsedAsIs
    /\ UpsertsOnlyWhenReady

-----------------------------------------------------------------------------
(* Properties of the server *)

\* retrieveRelevantChunks has resolved for the /chat request being handled
ChatHasRetrieved ==
    /\ request # <<>>
    /\ request.route = "/chat"
    /\ spc \in {"generate", "responded"}
    /\ rpc = "done"

\* The answer-generation model was called for the request being handled
GenerationCalled ==
    \E n \in 1..Len(serverCalls) : serverCalls[n] = "chat.completions.create"

\* The request is answered with the fixed answer and no sources, and the
\* generation model was not called for it
AnsweredNotFound ==
    /\ ~GenerationCalled
    /\ spc = "responded"
    /\ response[1].status = 200
    /\ response[1].answer \in FixedAnswers
    /\ response[1].sources = <<>>

\* Without DEBUG_RAG a retrieval below the threshold is answered with the
\* fixed answer
BelowThresholdAnsweredNotFoundUnlessDebug ==
    (ChatHasRetrieved /\ returned[1].belowThreshold /\ ~debugRag)
        => AnsweredNotFound

\* C21: whenever retrieveRelevantChunks resolves with belowThreshold = true
\* for a /chat request, the request is answered with the fixed "couldn't
\* find" answer and empty sources, and the generation model is not called
\* for it.
C21_BelowThresholdNeverGenerates ==
    (ChatHasRetrieved /\ returned[1].belowThreshold) => AnsweredNotFound

\* C22: when getPineconeIndex, an embedding call or an index query rejects
\* during retrieveRelevantChunks, on the single-query path or at any of the
\* fan-out queries, the call rejects and resolves to no result; a result is
\* returned only when every query of its path was answered; and /chat then
\* answers with status 500, not with a fixed "couldn't find" answer, and
\* without calling the generation model.
C22_FailedCallReachesCallerAsFault ==
    /\ rpc = "threw" =>
          /\ returned = <<>>
          /\ thrown \in {"getPineconeIndex", "embeddings.create", "ns.query"}
    /\ rpc = "done" =>
          /\ thrown = ""
          /\ Len(returned) = 1
          /\ Len(asked) = IF isAggregationQuery THEN NumSearchQueries ELSE 1
    /\ thrown # "" => rpc = "threw"
    /\ (spc = "responded" /\ rpc = "threw") =>
          /\ response[1].status = 500
          /\ response[1].answer \notin FixedAnswers
          /\ response[1].sources = <<>>
          /\ ~GenerationCalled

\* The third index query of the fan-out rejected after two were answered
\* with matches, and /chat has answered
C22_Witness ==
    /\ spc = "responded"
    /\ request.route = "/chat"
    /\ rpc = "threw"
    /\ thrown = "ns.query"
    /\ isAggregationQuery
    /\ queryNo = 3
    /\ allMatches # <<>>

-----------------------------------------------------------------------------
(* Properties of ingest(), continued *)

\* The calls that write to the vector index
IndexWrites == {"upsert", "upserted", "createIndex", "deleteIndex", "purge"}

\* With --dry no upsert is sent, and the upserts of each batch are logged
DryRunSendsNoUpsert ==
    "--dry" \in flags =>
        /\ \A j \in 1..Len(log) :
              log[j].op \notin {"upsert", "upserted", "upsertFailed"}
        /\ \A r \in 1..MaxRuns : \A fileName \in docsDir \cup {"a.txt"} :
              \A j \in EventsOf(r, fileName, "embed") :
                  Ended(j) # {} =>
                      \E h \in Ended(j) :
                          log[h].op \in {"dryRun", "embedFailed"}

\* C23: with --dry a run of ingestion writes nothing to the vector index: it
\* sends no upsert, creates and deletes no index and purges no namespace,
\* whatever the other flags and whether the index exists or not.
C23_DryRunWritesNothing ==
    "--dry" \in flags =>
        \A j \in 1..Len(log) : log[j].op \notin IndexWrites

\* The calls made to the embedding service and to the index service
ServiceCalls ==
    {"listIndexes", "createIndex", "createIndexFailed", "deleteIndex",
     "purge", "embed", "embedFailed", "upsert", "upserted", "upsertFailed"}

\* The server of server.js does not listen without one of its variables
ServerNeverListensWithoutConfiguration ==
    (serverVersion = "server.js" /\ ~ ServerEnvVars \subseteq serverEnv)
        => spc \in {"boot", "exit1"}

\* C24: when an API key or the index name is missing from the environment,
\* the process exits with code 1 before doing any work: the server of
\* server.js never listens, and ingestion makes no call to the embedding
\* service or to the index service.
C24_MissingConfigurationExitsBeforeWork ==
    /\ ServerNeverListensWithoutConfiguration
    /\ (ipc # "idle" /\ ~ IngestEnvVars \subseteq ingestEnv) =>
          /\ ipc \notin {"complete", "exit0"}
          /\ \A j \in 1..Len(log) : log[j].op \notin ServiceCalls

-----------------------------------------------------------------------------
(* Properties of chunkText, continued *)

\* The text of window n of the loop, before any cut
WindowText(n) == Slice(clean, windows[n].start, windows[n].end)

\* The windows cut by the word-boundary rule
WordCutWindows ==
    {n \in 1..Len(windows) : windows[n].type = "word" /\ windows[n].cut}

\* The offset in the window text at which the chunk of window n ends
CutOffset(n) == windows[n].lead + windows[n].body

\* The offsets at which the words of chunk.split(/\s+/) end, an empty word
\* at the head ending at 0
WordEnds(chunk) ==
    LET n    == Len(chunk)
        ends == SelectSeq(Indices(chunk), LAMBDA i :
                    ~IsWs(chunk[i]) /\ (i = n \/ IsWs(chunk[i + 1])))
    IN  IF n > 0 /\ IsWs(chunk[1]) THEN <<0>> \o ends ELSE ends

\* The end of the first word at which the running length reaches 80% of
\* maxChars
FirstWordReachingTarget(chunk, mc) ==
    LET words == Split(chunk)
        sums  == LengthSums(words, 1, Len(words))
        hit   == {i \in 1..Len(words) : sums[i] >= TargetLength(mc)}
    IN  WordEnds(chunk)[MinOf(hit)]

\* The chunk of a window cut by the word-boundary rule ends where a word of
\* the window ends
WordCutEndsWholeWord ==
    \A n \in WordCutWindows :
        LET t == WindowText(n)
        IN  CutOffset(n) = Len(t) \/ IsWs(t[CutOffset(n) + 1])

\* C25: when chunkText cuts a window by the word-boundary rule, the chunk
\* ends at the end of a whole word of the window, which is the first word at
\* which the running length reaches 80% of maxChars.
C25_WordCutAtFirstWordReachingTarget ==
    /\ WordCutEndsWholeWord
    /\ \A n \in WordCutWindows :
          CutOffset(n) = FirstWordReachingTarget(WindowText(n), maxChars)

-----------------------------------------------------------------------------
(* Properties of the server, continued *)

\* The request being handled has no x-api-key header, or one that differs
\* from CHATBOT_API_KEY, and requireApiKey has run
KeyRefused ==
    /\ request # <<>>
    /\ request.key # <<CHATBOT_API_KEY>>
    /\ spc # "requireApiKey"

-----------------------------------------------------------------------------
(* Properties of ingestion: a document ingested again after a change *)

\* The records the namespace holds for a file
RecordsOfFile(fileName) == {r \in store : r.metadata.source = fileName}

\* C27: once a document has been ingested without --purge, whatever was
\* ingested of it before, the namespace holds records for it only at the
\* chunk indices 0..n-1 of its latest text, n being its chunk count: no
\* record of an earlier, longer text of the document remains.
C27_NoRecordOfEarlierVersionRemains ==
    \A fileName \in docsDir :
        (LastBatchUpserted(fileName) /\ "--purge" \notin flags) =>
            \A r \in RecordsOfFile(fileName) :
                /\ r.metadata.chunkIndex < ChunkCount(fileName)
                /\ r.metadata.totalChunks = ChunkCount(fileName)

\* The records of the latest text are all there, each at its index
LatestRecordsAtTheirIndices ==
    \A fileName \in docsDir :
        LastBatchUpserted(fileName) =>
            \A k \in 0..(ChunkCount(fileName) - 1) :
                \E r \in RecordsOfFile(fileName) :
                    IsRecordOfChunk(r, fileName, k, ChunkCount(fileName))

-----------------------------------------------------------------------------
(* Properties of chunkText: the text between consecutive chunks *)

\* The offset in the normalized text at which the text covered by the chunk
\* of window n ends
CoveredEnd(n) == windows[n].start + windows[n].lead + windows[n].body

\* The windows that emitted a chunk and were followed by another window
EmittedAndFollowed ==
    {n \in 1..(Len(windows) - 1) : windows[n].emitted}

\* C28: for overlap >= 0, after a chunk is emitted the next window starts at
\* or before the end of the document text the chunk covers, whether or not
\* the source header was prepended to the chunk: no text between two
\* consecutive emitted chunks is skipped.
C28_NextWindowStartsWithinCoveredText ==
    overlap >= 0 =>
        \A n \in EmittedAndFollowed : windows[n + 1].start <= CoveredEnd(n)

\* The same for the chunks to which no header was prepended
PlainChunkIsNeverOverstepped ==
    overlap >= 0 =>
        \A n \in EmittedAndFollowed :
            ~windows[n].header => windows[n + 1].start <= CoveredEnd(n)

-----------------------------------------------------------------------------
(* Properties of the crawl *)

\* The URLs of the web that are on the host www.caes.uga.edu with a path
\* under /students/
OnSite ==
    {"https://www.caes.uga.edu/students/",
     "https://www.caes.uga.edu/students/#top",
     "https://www.caes.uga.edu/students/a",
     "https://www.caes.uga.edu/students/b",
     "https://www.caes.uga.edu/students/c",
     "https://www.caes.uga.edu/students/d"}

\* The URLs that k links or fewer lead to from the seed
RECURSIVE Within(_)
Within(k) ==
    IF k = 0 THEN {START_URL}
    ELSE Within(k - 1) \cup
         UNION {{Web[u][j] : j \in 1..Len(Web[u])} :
                   u \in Within(k - 1) \cap DOMAIN Web}

\* The calls of fetchAndParse that ended with the page saved
Saved == {i \in 1..Len(fetched) : fetched[i].ok}

\* C29: the crawl fetches every URL at most once, a failed fetch included;
\* it saves at most MAX_PAGES pages, a failed fetch not being counted; it
\* fetches no URL more than MAX_DEPTH links from the seed; it enqueues only
\* links on the configured host and path prefix; every fetch is made with
\* the queue not empty and fewer than MAX_PAGES pages saved, and the crawl
\* is done only with the queue empty or MAX_PAGES pages saved.
C29_CrawlIsBoundedAndOnSite ==
    /\ \A i, j \in 1..Len(fetched) :
          i # j => fetched[i].url # fetched[j].url
    /\ count = Cardinality(Saved)
    /\ count <= MAX_PAGES
    /\ \A i \in 1..Len(fetched) :
          /\ fetched[i].depth <= MAX_DEPTH
          /\ fetched[i].url \in Within(MAX_DEPTH)
          /\ fetched[i].countBefore < MAX_PAGES
          /\ fetched[i].queueBefore > 0
    /\ \A e \in enqueued : e.url \in OnSite /\ e.depth <= MAX_DEPTH
    /\ \A k \in 1..Len(queue) :
          queue[k].url = START_URL \/ queue[k] \in enqueued
    /\ cpc = "done" => (queue = <<>> \/ count = MAX_PAGES)

\* The crawl from the default seed ended at MAX_PAGES pages with entries
\* left in the queue, after a failed fetch and a fetch at depth MAX_DEPTH,
\* the page of the site with links off the site having been saved
C29_Witness ==
    /\ cpc = "done"
    /\ START_URL = "https://www.admissions.uga.edu/experience/"
    /\ count = MAX_PAGES
    /\ queue # <<>>
    /\ \E i \in 1..Len(fetched) : ~fetched[i].ok
    /\ \E i \in Saved : fetched[i].depth = MAX_DEPTH
    /\ \E i \in Saved : fetched[i].url = "https://www.caes.uga.edu/students/"

-----------------------------------------------------------------------------
(* Properties of ingestion: index provisioning ends *)

\* The entries with which processFile begins a document, or leaves it
ProcessFileEntries ==
    SelectSeq(log, LAMBDA e :
        e.run = run /\ e.op \in {"read", "converted", "failed", "skipped"})

\* "Ingestion complete." is reported, the polling loop has ended with the
\* index ready, and processFile was called once for each document of the
\* run, in the order of the listing made at the start of the run (the a.txt
\* a conversion writes comes after the listing)
CompleteWithEveryDocumentProcessedInOrder ==
    /\ ipc = "complete"
    /\ indexState = "ready"
    /\ [k \in 1..Len(ProcessFileEntries) |-> ProcessFileEntries[k].file]
          = files
    /\ files = ReadDir(docsDir \ {"a.txt"}) \/ files = ReadDir(docsDir)

\* C30: after createIndex, when the service comes to report the index ready
\* and every call returns, the polling loop of getOrCreateIndex ends and
\* every document of the run is processed exactly once, in directory order,
\* before "Ingestion complete." is reported.
C30_ProvisioningEndsAndEveryDocumentIsProcessed ==
    (ipc = "describeIndex") ~> CompleteWithEveryDocumentProcessedInOrder

\* The index was created, polled until ready, and the two documents of the
\* run were processed, the first in two batches and the second in three
C30_Witness ==
    /\ CompleteWithEveryDocumentProcessedInOrder
    /\ \E j \in 1..Len(log) : log[j].op = "createIndex"
    /\ files = <<"a.pdf", "b.md">>
    /\ LoopEnded(1, "a.pdf")
    /\ LoopEnded(1, "b.md")

====
